---- MODULE Spec2Model ----
(***************************************************************************)
(* Session-aware conversational retrieval engine of book-agent.           *)
(*                                                                         *)
(* Context store (services/conversation_context.py and                    *)
(* services/conversation_memory.py), intent analysis and retrieval        *)
(* strategy selection (services/agent_service.py).                        *)
(*                                                                         *)
(* Python values are encoded as follows:                                   *)
(*   Optional[T]    None is <<>>, a value v is <<v>>                       *)
(*   list           a sequence                                             *)
(*   set            a set                                                  *)
(*   dict           a record                                               *)
(*   datetime       a number of clock ticks                                *)
(***************************************************************************)
EXTENDS Integers, Sequences, FiniteSets, TLC

VARIABLES
    now,        \* the wall clock read by datetime.now()
    store,      \* the Redis key space: key -> Optional[value, expire]
    mgr,        \* the manager class the process was constructed with
    call,       \* the last completed manager call: arguments, result
    pc,         \* position of each concurrent add_message request
    loc,        \* local variables of each concurrent add_message request
    writers,    \* the requests in the order of their Redis writes
    fin,        \* argument tuple of the pure function under evaluation
    fout        \* its result

vars == <<now, store, mgr, call, pc, loc, writers, fin, fout>>

-----------------------------------------------------------------------------
(* Bounds *)

MaxTime == 2

-----------------------------------------------------------------------------
(* Python Optional *)

None == <<>>
Some(v) == <<v>>

-----------------------------------------------------------------------------
(* Manager configuration *)

\* max_context_messages, scaled down from 50
max_context_messages == 2

\* context_ttl_seconds = ttl_hours * 3600, in clock ticks
context_ttl_seconds == 2

SessionIds == {"s1"}
Managers == {"context", "memory"}

-----------------------------------------------------------------------------
(* Input domains *)

Book(book_id) == [book_id |-> book_id]

\* the books argument: absent, empty, one book, two books one without an id
BooksArgs ==
    {None, Some(<<>>), Some(<<Book(Some(1))>>), Some(<<Book(Some(0)), Book(None)>>)}

\* <<role, content, books, intent>> of the messages added: a user message
\* without books and assistant messages with every books argument
MessageArgs ==
    {<<"user", "a", None, None>>}
        \cup {<<"assistant", "b", b, Some("general")>> : b \in BooksArgs}

-----------------------------------------------------------------------------
(* Serialization helpers *)

\* datetime.isoformat()
IsoFormat(t) == ToString(t)

\* datetime.fromisoformat()
FromIsoFormat(s) == CHOOSE t \in 0..(MaxTime + context_ttl_seconds) : ToString(t) = s

RECURSIVE SetToList(_)
\* list(a_set): the elements in some order, each once
SetToList(S) ==
    IF S = {} THEN <<>>
    ELSE LET x == CHOOSE y \in S : \A z \in S : y <= z
         IN  <<x>> \o SetToList(S \ {x})

\* set(a_list)
ListToSet(l) == {l[i] : i \in 1..Len(l)}

\* json.dumps: the text blob holding a JSON value
JsonDumps(v) == [json |-> v]

\* json.loads
JsonLoads(blob) == blob.json

_serialize_session(session) ==
    [session EXCEPT !.created = IsoFormat(session.created),
                    !.last_activity = IsoFormat(session.last_activity),
                    !.discussed_books = SetToList(session.discussed_books)]

\* a deserializer that reads discussed_books under a wrong key and so
\* falls back to the empty default
DeserializeWithoutDiscussed(data) ==
    [data EXCEPT !.created = FromIsoFormat(data.created),
                 !.last_activity = FromIsoFormat(data.last_activity),
                 !.discussed_books = {}]

_deserialize_session(data) ==
    [data EXCEPT !.created = FromIsoFormat(data.created),
                 !.last_activity = FromIsoFormat(data.last_activity),
                 !.discussed_books = ListToSet(data.discussed_books)]

_session_key(session_id) == "conversation:" \o session_id

RedisKeys == {_session_key(s) : s \in SessionIds}

-----------------------------------------------------------------------------
(* Redis *)

\* redis.get(key): a key whose TTL has run out is not found (there is no
\* sweep: the stale entry stays until it is overwritten or deleted)
RedisGet(st, key) ==
    IF st[key] # None /\ now < st[key][1].expire THEN Some(st[key][1].value) ELSE None

\* a write that appends the newest message of the new value to the stored
\* history instead of replacing the stored value
SetexMerge(old, new) ==
    LET added == new.json.conversation_history
        kept == IF old = None THEN <<>> ELSE old[1].value.json.conversation_history
    IN  IF added = <<>> \/ kept = <<>> \/ added[Len(added)] = kept[Len(kept)]
        THEN new
        ELSE [json |-> [new.json EXCEPT !.conversation_history =
                          Append(kept, added[Len(added)])]]

\* the value a key holds after SETEX: the new value replaces the old one
SetexValue(old, new) == new

\* a write that keeps the remaining TTL of a live key (SET ... KEEPTTL)
RedisSetKeepTtl(st, key, ttl, value) ==
    [st EXCEPT ![key] =
        Some([value |-> SetexValue(st[key], value),
              expire |-> IF st[key] # None /\ now < st[key][1].expire
                         THEN st[key][1].expire
                         ELSE now + ttl])]

\* redis.setex(key, ttl, value)
RedisSetex(st, key, ttl, value) ==
    [st EXCEPT ![key] = Some([value |-> SetexValue(st[key], value), expire |-> now + ttl])]

\* redis.delete(key)
RedisDelete(st, key) == [st EXCEPT ![key] = None]

-----------------------------------------------------------------------------
(* ConversationContextManager *)

NewSession(created, discussed) ==
    [created |-> created,
     last_activity |-> created,
     conversation_history |-> <<>>,
     last_recommendations |-> None,
     current_topic |-> None,
     discussed_books |-> discussed,
     book_details_cache |-> <<>>]

\* a load that stamps created anew on every call
LoadedSessionNewCreated(st, session_id) ==
    LET raw == RedisGet(st, _session_key(session_id))
        session == IF raw # None
                   THEN _deserialize_session(JsonLoads(raw[1]))
                   ELSE NewSession(now, {})
    IN  [session EXCEPT !.last_activity = now, !.created = now]

\* the session get_or_create_session builds before saving it
LoadedSession(st, session_id) ==
    LET raw == RedisGet(st, _session_key(session_id))
        session == IF raw # None
                   THEN _deserialize_session(JsonLoads(raw[1]))
                   ELSE NewSession(now, {})
    IN  [session EXCEPT !.last_activity = now]

_save_session(st, session_id, session) ==
    RedisSetex(st, _session_key(session_id), context_ttl_seconds,
               JsonDumps(_serialize_session(session)))

\* `if books:` is false for None and for the empty list
Truthy(books) == books # None /\ Len(books[1]) > 0

Message(role, content, books, intent) ==
    LET message == [timestamp |-> IsoFormat(now), role |-> role,
                    content |-> content, intent |-> intent]
    IN  IF Truthy(books) THEN message @@ [books |-> books[1]] ELSE message

\* history[-n:] (n > 0)
LastN(history, n) ==
    IF Len(history) > n THEN SubSeq(history, Len(history) - n + 1, Len(history))
    ELSE history

\* a truncation that keeps one message too many
TruncateOneMore(history) ==
    IF Len(history) > max_context_messages + 1
    THEN LastN(history, max_context_messages + 1)
    ELSE history

\* a truncation that keeps the oldest messages: history[:n]
TruncateOldest(history) ==
    IF Len(history) > max_context_messages
    THEN SubSeq(history, 1, max_context_messages)
    ELSE history

Truncate(history) ==
    IF Len(history) > max_context_messages
    THEN LastN(history, max_context_messages)
    ELSE history

\* a loop that tests `if book_id:` and so skips the id 0
BookIdsTruthy(books) ==
    IF Truthy(books)
    THEN {books[1][i].book_id[1] :
            i \in {j \in 1..Len(books[1]) :
                     books[1][j].book_id # None /\ books[1][j].book_id[1] # 0}}
    ELSE {}

\* the ids the loop over books adds to discussed_books
BookIdsOf(books) ==
    IF Truthy(books)
    THEN {books[1][i].book_id[1] : i \in {j \in 1..Len(books[1]) : books[1][j].book_id # None}}
    ELSE {}

\* a save of the appended message alone, the recommendations and the
\* discussed books being left to a later write
WithMessageAlone(session, role, content, books, intent) ==
    [session EXCEPT
        !.conversation_history = Truncate(Append(@, Message(role, content, books, intent)))]

\* the session add_message saves
WithMessage(session, role, content, books, intent) ==
    [session EXCEPT
        !.last_recommendations = IF Truthy(books) THEN books ELSE @,
        !.conversation_history = Truncate(Append(@, Message(role, content, books, intent))),
        !.discussed_books = @ \cup BookIdsOf(books)]

-----------------------------------------------------------------------------
(* ConversationMemoryManager: the session is the JSON dict itself *)

MemNewSession ==
    [created |-> IsoFormat(now),
     last_activity |-> IsoFormat(now),
     conversation_history |-> <<>>,
     last_recommendations |-> None,
     current_topic |-> None,
     discussed_books |-> <<>>,
     book_details_cache |-> <<>>]

MemLoadedSession(st, session_id) ==
    LET data == RedisGet(st, _session_key(session_id))
    IN  IF data # None
        THEN [JsonLoads(data[1]) EXCEPT !.last_activity = IsoFormat(now)]
        ELSE MemNewSession

Mem_save_session(st, key, session) ==
    RedisSetex(st, key, context_ttl_seconds, JsonDumps(session))

RECURSIVE MemDiscuss(_, _)
\* the loop appending book ids that are truthy and not yet listed
MemDiscuss(discussed, books) ==
    IF books = <<>> THEN discussed
    ELSE LET book_id == Head(books).book_id
             next == IF book_id # None /\ book_id[1] # 0
                        /\ book_id[1] \notin ListToSet(discussed)
                     THEN Append(discussed, book_id[1])
                     ELSE discussed
         IN  MemDiscuss(next, Tail(books))

MemWithMessage(session, role, content, books, intent) ==
    [session EXCEPT
        !.last_recommendations = IF Truthy(books) THEN books ELSE @,
        !.discussed_books = IF Truthy(books) THEN MemDiscuss(@, books[1]) ELSE @,
        !.conversation_history = Truncate(Append(@, Message(role, content, books, intent))),
        !.last_activity = IsoFormat(now)]

-----------------------------------------------------------------------------
(* Manager calls, one request at a time *)

\* failAt = n: the n-th Redis command of the call raises a connection error
NoFailure == 0

\* what redis.get(key) meets: a live record, no record, or a stale one
Lookup(st, key) ==
    IF st[key] = None THEN "missing"
    ELSE IF now < st[key][1].expire THEN "found" ELSE "expired"

NoCall ==
    [op |-> "none", sid |-> "", role |-> "", content |-> "", books |-> None,
     intent |-> None, failAt |-> NoFailure, outcome |-> "ok",
     lookup |-> "missing", priorLen |-> 0, ret |-> None, afterCreate |-> FALSE]

\* the call record of a call that returned ret
Returned(c, session_id, ret) ==
    LET key == _session_key(session_id)
    IN  [c EXCEPT !.sid = session_id, !.ret = ret,
                  !.lookup = Lookup(store, key),
                  !.priorLen = IF Lookup(store, key) = "found"
                               THEN Len(JsonLoads(store[key][1].value).conversation_history)
                               ELSE 0,
                  !.afterCreate = /\ call.op = "get_or_create_session"
                                  /\ call.sid = session_id
                                  /\ call.outcome = "ok"
                                  /\ call.lookup # "found"]

\* the call record of a call that raised at its failAt-th Redis command
Raised(op, session_id, failAt) ==
    [NoCall EXCEPT !.op = op, !.sid = session_id, !.failAt = failAt,
                   !.outcome = "raised"]

\* the session of store st under session_id, as ConversationContextManager
\* loads it; None when redis.get finds nothing
SessionIn(st, session_id) ==
    LET raw == RedisGet(st, _session_key(session_id))
    IN  IF raw # None THEN Some(_deserialize_session(JsonLoads(raw[1]))) ELSE None

\* a returned session in the ConversationContextManager representation
AsContext(session) ==
    IF mgr = "memory" THEN _deserialize_session(session) ELSE session

Loaded(st, session_id) ==
    IF mgr = "memory" THEN MemLoadedSession(st, session_id)
    ELSE LoadedSession(st, session_id)

Saved(st, session_id, session) ==
    IF mgr = "memory" THEN Mem_save_session(st, _session_key(session_id), session)
    ELSE _save_session(st, session_id, session)

Updated(session, role, content, books, intent) ==
    IF mgr = "memory" THEN MemWithMessage(session, role, content, books, intent)
    ELSE WithMessage(session, role, content, books, intent)

Tick ==
    /\ now < MaxTime
    /\ now' = now + 1
    /\ UNCHANGED <<store, mgr, call, pc, loc, writers, fin, fout>>

get_or_create_session(session_id, failAt) ==
    LET session == Loaded(store, session_id)
        c == [NoCall EXCEPT !.op = "get_or_create_session"]
    IN  /\ IF failAt = NoFailure
           THEN /\ store' = Saved(store, session_id, session)
                /\ call' = Returned(c, session_id, Some(session))
           ELSE /\ store' = store
                /\ call' = Raised("get_or_create_session", session_id, failAt)
        /\ UNCHANGED <<now, mgr, pc, loc, writers, fin, fout>>

add_message(session_id, role, content, books, intent, failAt) ==
    LET session == Loaded(store, session_id)
        c == [NoCall EXCEPT !.op = "add_message", !.role = role,
                            !.content = content, !.books = books,
                            !.intent = intent]
        afterGet == Saved(store, session_id, session)
    IN  /\ IF failAt = NoFailure
           THEN /\ store' = Saved(afterGet, session_id,
                                  Updated(session, role, content, books, intent))
                /\ call' = Returned(c, session_id, None)
           ELSE /\ store' = IF failAt = 3 THEN afterGet ELSE store
                /\ call' = Raised("add_message", session_id, failAt)
        /\ UNCHANGED <<now, mgr, pc, loc, writers, fin, fout>>

get_last_recommendations(session_id, failAt) ==
    LET session == Loaded(store, session_id)
        c == [NoCall EXCEPT !.op = "get_last_recommendations"]
    IN  /\ mgr = "context"
        /\ IF failAt = NoFailure
           THEN /\ store' = Saved(store, session_id, session)
                /\ call' = Returned(c, session_id, session.last_recommendations)
           ELSE /\ store' = store
                /\ call' = Raised("get_last_recommendations", session_id, failAt)
        /\ UNCHANGED <<now, mgr, pc, loc, writers, fin, fout>>

clear_session(session_id, failAt) ==
    LET c == [NoCall EXCEPT !.op = "clear_session"]
    IN  /\ mgr = "context"
        /\ IF failAt = NoFailure
           THEN /\ store' = RedisDelete(store, _session_key(session_id))
                /\ call' = Returned(c, session_id, None)
           ELSE /\ store' = store
                /\ call' = Raised("clear_session", session_id, failAt)
        /\ UNCHANGED <<now, mgr, pc, loc, writers, fin, fout>>

Idle == [p \in {} |-> None]

Init ==
    /\ now = 0
    /\ store = [k \in RedisKeys |-> None]
    /\ mgr \in Managers
    /\ call = NoCall
    /\ pc = Idle
    /\ loc = Idle
    /\ writers = <<>>
    /\ fin = None
    /\ fout = None

Next ==
    \/ Tick
    \/ \E s \in SessionIds, f \in 0..2 : get_or_create_session(s, f)
    \/ \E s \in SessionIds, m \in MessageArgs :
          add_message(s, m[1], m[2], m[3], m[4], NoFailure)
    \/ \E s \in SessionIds, f \in 1..3 :
          add_message(s, "user", "a", None, None, f)
    \/ \E s \in SessionIds, f \in 0..2 : get_last_recommendations(s, f)
    \/ \E s \in SessionIds, f \in 0..1 : clear_session(s, f)

Spec == Init /\ [][Next]_vars

-----------------------------------------------------------------------------
(* Concurrent add_message requests: each Redis command is one step *)

Procs == {1, 2}

\* the session the requests race on
RaceSession == "s1"

EmptyStore == [k \in RedisKeys |-> None]

\* the store after add_message(RaceSession, "assistant", "b", [book 1])
SeededStore ==
    LET session == Loaded(EmptyStore, RaceSession)
    IN  Saved(EmptyStore, RaceSession,
              Updated(session, "assistant", "b", Some(<<Book(Some(1))>>),
                      Some("general")))

NoLocals ==
    [role |-> "", content |-> "", books |-> None, intent |-> None,
     session |-> None, message |-> None, readAfter |-> 0]

\* add_message line 196, get_or_create_session line 157: redis.get and the
\* construction of the local session
RaceGet(p, m) ==
    /\ pc[p] = "idle"
    /\ pc' = [pc EXCEPT ![p] = "loaded"]
    /\ loc' = [loc EXCEPT ![p] =
                 [role |-> m[1], content |-> m[2], books |-> m[3],
                  intent |-> m[4],
                  session |-> Some(Loaded(store, RaceSession)),
                  message |-> None,
                  readAfter |-> Len(writers)]]
    /\ UNCHANGED <<now, store, mgr, call, writers, fin, fout>>

\* get_or_create_session line 174: the save of the loaded session
RaceSaveLoaded(p) ==
    /\ pc[p] = "loaded"
    /\ store' = Saved(store, RaceSession, loc[p].session[1])
    /\ writers' = Append(writers, p)
    /\ pc' = [pc EXCEPT ![p] = "saved"]
    /\ UNCHANGED <<now, mgr, call, loc, fin, fout>>

\* add_message lines 198-224: the update of the local session and its save
RaceSaveMessage(p) ==
    LET l == loc[p]
    IN  /\ pc[p] = "saved"
        /\ store' = Saved(store, RaceSession,
                          Updated(l.session[1], l.role, l.content, l.books,
                                  l.intent))
        /\ writers' = Append(writers, p)
        /\ loc' = [loc EXCEPT ![p].message =
                     Some(Message(l.role, l.content, l.books, l.intent))]
        /\ pc' = [pc EXCEPT ![p] = "done"]
        /\ UNCHANGED <<now, mgr, call, fin, fout>>

InitRace ==
    /\ now = 0
    /\ mgr \in Managers
    /\ store \in {EmptyStore, SeededStore}
    /\ call = NoCall
    /\ pc = [p \in Procs |-> "idle"]
    /\ loc = [p \in Procs |-> NoLocals]
    /\ writers = <<>>
    /\ fin = None
    /\ fout = None

NextRace ==
    \/ Tick
    \/ \E p \in Procs, m \in MessageArgs : RaceGet(p, m)
    \/ \E p \in Procs : RaceSaveLoaded(p)
    \/ \E p \in Procs : RaceSaveMessage(p)

SpecRace == InitRace /\ [][NextRace]_vars

-----------------------------------------------------------------------------
(* Python strings *)

UpperCase == "ABCDEFGHIJKLMNOPQRSTUVWXYZÁÀÂÃÉÊÍÓÔÕÚÜÇ"
LowerCase == "abcdefghijklmnopqrstuvwxyzáàâãéêíóôõúüç"

\* the lower-case letter of each upper-case letter
LowerOf ==
    [c \in {SubSeq(UpperCase, i, i) : i \in 1..Len(UpperCase)} |->
        LET i == CHOOSE j \in 1..Len(UpperCase) : SubSeq(UpperCase, j, j) = c
        IN  SubSeq(LowerCase, i, i)] @@ <<>>

\* str.lower() of a one-character string
LowerChar(c) == IF c \in DOMAIN LowerOf THEN LowerOf[c] ELSE c

RECURSIVE Lower(_)
\* str.lower()
Lower(str) ==
    IF Len(str) = 0 THEN ""
    ELSE LowerChar(SubSeq(str, 1, 1)) \o Lower(SubSeq(str, 2, Len(str)))

RECURSIVE Strip(_)
\* str.strip()
Strip(str) ==
    IF Len(str) = 0 THEN ""
    ELSE IF SubSeq(str, 1, 1) = " " THEN Strip(SubSeq(str, 2, Len(str)))
    ELSE IF SubSeq(str, Len(str), Len(str)) = " "
         THEN Strip(SubSeq(str, 1, Len(str) - 1))
    ELSE str

\* keyword in str
Contains(str, keyword) ==
    \E i \in 1..(Len(str) - Len(keyword) + 1) :
        SubSeq(str, i, i + Len(keyword) - 1) = keyword

\* any(keyword in str for keyword in keywords)
AnyIn(keywords, str) == \E i \in 1..Len(keywords) : Contains(str, keywords[i])

RECURSIVE Join(_)
\* " ".join(words)
Join(words) ==
    IF words = <<>> THEN ""
    ELSE IF Len(words) = 1 THEN words[1]
    ELSE words[1] \o " " \o Join(Tail(words))

RECURSIVE Split(_)
\* str.split(): the words between runs of blanks
Split(str) ==
    IF Len(str) = 0 THEN <<>>
    ELSE IF SubSeq(str, 1, 1) = " " THEN Split(SubSeq(str, 2, Len(str)))
    ELSE LET blanks == {i \in 1..Len(str) : SubSeq(str, i, i) = " "}
             n == IF blanks = {} THEN Len(str)
                  ELSE (CHOOSE i \in blanks : \A j \in blanks : i <= j) - 1
         IN  <<SubSeq(str, 1, n)>> \o Split(SubSeq(str, n + 1, Len(str)))

-----------------------------------------------------------------------------
(* BookAgentService._determine_search_strategy *)

specific_aspects == <<"melhor", "mais", "recomenda", "indica", "sugere">>

\* a selector that tests the topic shift before the question about the
\* previous books
StrategyShiftFirst(message, intent, context_analysis, last_recommendations) ==
    LET message_lower == Lower(message)
    IN  IF context_analysis.topic_shift THEN "new_search"
        ELSE IF context_analysis.asking_about_previous THEN "use_previous_only"
        ELSE IF intent \in {"author", "genre", "popular"} THEN "new_search"
        ELSE IF Truthy(last_recommendations) /\ context_analysis.is_continuation
             THEN IF AnyIn(specific_aspects, message_lower)
                  THEN "context_boosted"
                  ELSE "similar_to_previous"
        ELSE "new_search"

_determine_search_strategy(message, intent, context_analysis, last_recommendations) ==
    LET message_lower == Lower(message)
    IN  IF context_analysis.asking_about_previous THEN "use_previous_only"
        ELSE IF context_analysis.topic_shift THEN "new_search"
        ELSE IF intent \in {"author", "genre", "popular"} THEN "new_search"
        ELSE IF Truthy(last_recommendations) /\ context_analysis.is_continuation
             THEN IF AnyIn(specific_aspects, message_lower)
                  THEN "context_boosted"
                  ELSE "similar_to_previous"
        ELSE "new_search"

StrategyMessages ==
    {"Desses, qual o mais focado?", "Qual o MELHOR?", "me indica outro",
     "e agora", ""}

IntentLabels ==
    {"career_growth", "general", "author", "closing", "social", "genre",
     "popular", "popularity"}

ContextAnalyses ==
    [asking_about_previous : BOOLEAN, topic_shift : BOOLEAN,
     is_continuation : BOOLEAN]

StrategyInputs ==
    [fn : {"_determine_search_strategy"}, message : StrategyMessages,
     intent : IntentLabels, context_analysis : ContextAnalyses,
     last_recommendations : BooksArgs]

determine_search_strategy ==
    /\ fin # None
    /\ fout = None
    /\ fout' = Some(_determine_search_strategy(fin[1].message, fin[1].intent,
                                               fin[1].context_analysis,
                                               fin[1].last_recommendations))
    /\ UNCHANGED <<now, store, mgr, call, pc, loc, writers, fin>>

InitPure ==
    /\ now = 0
    /\ store = EmptyStore
    /\ mgr = "context"
    /\ call = NoCall
    /\ pc = Idle
    /\ loc = Idle
    /\ writers = <<>>
    /\ fout = None

InitStrategy == InitPure /\ fin \in {Some(i) : i \in StrategyInputs}

SpecStrategy == InitStrategy /\ [][determine_search_strategy]_vars

-----------------------------------------------------------------------------
(* BookAgentService._analyze_intent *)

MaxWords == 3

career_keywords ==
    <<"promovido", "promoção", "carreira", "liderança", "líder", "gestor",
      "gerente", "promoted", "promotion", "career", "leadership", "leader",
      "manager">>

genre_keywords ==
    <<"fantasia", "fantasy", "ficção científica", "sci-fi", "science fiction",
      "romance", "terror", "horror", "mistério", "mystery", "suspense",
      "história", "history", "biografia", "biography", "autoajuda",
      "self-help", "negócios", "business", "ciência", "science", "tecnologia",
      "technology">>

book_request_words ==
    <<"recomende", "recomendação", "sugestão", "livro", "livros",
      "recommend", "recommendation", "suggestion", "book", "books">>

author_keywords ==
    <<"autor", "autora", "writer", "author", "escritor", "escritora",
      "livros de", "obras de", "books by">>

known_authors ==
    <<"j.k. rowling", "jk rowling", "stephen king", "george orwell",
      "agatha christie", "j.r.r. tolkien", "dan brown", "paulo coelho",
      "suzanne collins", "veronica roth", "rick riordan">>

closing_keywords ==
    <<"obrigado", "obrigada", "valeu", "thank you", "thanks", "bye", "tchau",
      "até logo", "goodbye", "adeus">>

\* a cascade that tests the author rule before the genre rule
AnalyzeIntentAuthorFirst(message) ==
    LET message_lower == Strip(Lower(message))
        has_genre == AnyIn(genre_keywords, message_lower)
        has_book_request == AnyIn(book_request_words, message_lower)
        has_author_keyword == AnyIn(author_keywords, message_lower)
        has_known_author == AnyIn(known_authors, message_lower)
        is_closing == AnyIn(closing_keywords, message_lower)
    IN  IF AnyIn(career_keywords, message_lower) THEN "career_growth"
        ELSE IF has_author_keyword \/ has_known_author THEN "author"
        ELSE IF has_genre /\ has_book_request THEN "general"
        ELSE IF has_book_request THEN "general"
        ELSE IF is_closing /\ ~has_book_request THEN "closing"
        ELSE "social"

_analyze_intent(message) ==
    LET message_lower == Strip(Lower(message))
        has_genre == AnyIn(genre_keywords, message_lower)
        has_book_request == AnyIn(book_request_words, message_lower)
        has_author_keyword == AnyIn(author_keywords, message_lower)
        has_known_author == AnyIn(known_authors, message_lower)
        is_closing == AnyIn(closing_keywords, message_lower)
    IN  IF AnyIn(career_keywords, message_lower) THEN "career_growth"
        ELSE IF has_genre /\ has_book_request THEN "general"
        ELSE IF has_author_keyword \/ has_known_author THEN "author"
        ELSE IF has_book_request THEN "general"
        ELSE IF is_closing /\ ~has_book_request THEN "closing"
        ELSE "social"

\* the words the messages are made of
Vocabulary ==
    {"Carreira", "fantasy", "livros", "books by", "Stephen King", "autora",
     "Obrigado", "oi"}

RECURSIVE WordsUpTo(_)
WordsUpTo(n) ==
    IF n = 0 THEN {<<>>}
    ELSE WordsUpTo(n - 1)
           \cup {Append(ws, w) : ws \in {t \in WordsUpTo(n - 1) : Len(t) = n - 1},
                                 w \in Vocabulary}

IntentInputs ==
    {[fn |-> "_analyze_intent", message |-> Join(ws)] : ws \in WordsUpTo(MaxWords)}

analyze_intent ==
    /\ fin # None
    /\ fout = None
    /\ fout' = Some(_analyze_intent(fin[1].message))
    /\ UNCHANGED <<now, store, mgr, call, pc, loc, writers, fin>>

InitIntent == InitPure /\ fin \in {Some(i) : i \in IntentInputs}

SpecIntent == InitIntent /\ [][analyze_intent]_vars

-----------------------------------------------------------------------------
(* POST /memory/clear-all (api/routes.py) down to                          *)
(* ConversationContextManager.clear_all_sessions                           *)

ApiSessions == {"s1", "s2"}

ApiKeys == {_session_key(s) : s \in ApiSessions}

\* the messages the chat requests of this specification store
ApiMessages ==
    {<<"user", "a", None, None>>,
     <<"assistant", "b", Some(<<Book(Some(1))>>), Some("general")>>}

\* the admin_token query parameter: absent, empty, wrong, the default, the
\* configured one
AdminTokens == {None, Some(""), Some("wrong"), Some("admin123"), Some("s3cret")}

\* os.getenv('ADMIN_TOKEN', 'admin123')
ExpectedToken(env) == IF env.ADMIN_TOKEN = None THEN "admin123" ELSE env.ADMIN_TOKEN[1]

\* a check that accepts every request that carries some token
TokenAbsent(admin_token, expected_token) == admin_token = None

\* admin_token != expected_token
TokenMismatch(admin_token, expected_token) == admin_token # Some(expected_token)

\* key.startswith(prefix)
StartsWith(str, prefix) ==
    Len(prefix) <= Len(str) /\ SubSeq(str, 1, Len(prefix)) = prefix

\* redis.keys(prefix + "*"): the live keys with the prefix
KeysMatching(st, prefix) ==
    {k \in DOMAIN st : RedisGet(st, k) # None /\ StartsWith(k, prefix)}

\* the store without the keys of D
DeleteAll(st, D) == [k \in DOMAIN st |-> IF k \in D THEN None ELSE st[k]]

ApiCall(admin_token, status, executed, deleted) ==
    [op |-> "clear_all_memory", admin_token |-> admin_token,
     status |-> status, executed |-> executed, deleted |-> deleted,
     outcome |-> "ok"]

\* clear_all_memory: failAt = 1, 2 fails a redis.keys command, failAt = 3
\* fails a redis.delete after the keys of some D are deleted
clear_all_memory(admin_token, failAt) ==
    LET expected_token == ExpectedToken(fin[1])
        all_chat_keys == KeysMatching(store, "conversation:")
                           \cup KeysMatching(store, "chat:")
    IN  /\ fin # None
        /\ IF TokenMismatch(admin_token, expected_token)
           THEN /\ failAt = NoFailure
                /\ store' = store
                /\ call' = ApiCall(admin_token, 403, FALSE, 0)
           ELSE IF ~fin[1].agent_service
           THEN /\ failAt = NoFailure
                /\ store' = store
                /\ call' = ApiCall(admin_token, 503, FALSE, 0)
           ELSE IF failAt \in {1, 2}
           THEN /\ store' = store
                /\ call' = ApiCall(admin_token, 400, TRUE, 0)
           ELSE IF failAt = 3
           THEN /\ all_chat_keys # {}
                /\ \E D \in SUBSET all_chat_keys :
                      /\ D # all_chat_keys
                      /\ store' = DeleteAll(store, D)
                      /\ call' = ApiCall(admin_token, 400, TRUE, Cardinality(D))
           ELSE /\ store' = DeleteAll(store, all_chat_keys)
                /\ call' = ApiCall(admin_token, 200, TRUE,
                                   Cardinality(all_chat_keys))
        /\ UNCHANGED <<now, mgr, pc, loc, writers, fin, fout>>

\* the process environment and whether get_agent_service() has an agent
ApiEnvironments ==
    [ADMIN_TOKEN : {None, Some("s3cret")}, agent_service : BOOLEAN]

InitApi ==
    /\ now = 0
    /\ store = [k \in ApiKeys |-> None]
    /\ mgr = "context"
    /\ call = NoCall
    /\ pc = Idle
    /\ loc = Idle
    /\ writers = <<>>
    /\ fin \in {Some(e) : e \in ApiEnvironments}
    /\ fout = None

NextApi ==
    \/ \E s \in ApiSessions, m \in ApiMessages :
          add_message(s, m[1], m[2], m[3], m[4], NoFailure)
    \/ \E t \in AdminTokens, f \in 0..3 : clear_all_memory(t, f)

SpecApi == InitApi /\ [][NextApi]_vars

-----------------------------------------------------------------------------
(* Regular expressions (Python re), as far as the patterns of              *)
(* services/book_conversation_service.py use them                          *)

Whitespace == " \t\n\r\f"
Digits == "0123456789"
\* the characters \w matches, as far as messages use them
WordChars == LowerCase \o UpperCase \o Digits \o "_ºª"

Unbounded == 1000

IsIn(c, chars) == \E i \in 1..Len(chars) : SubSeq(chars, i, i) = c

\* pattern nodes
Lit(s) == [k |-> "lit", s |-> s]
OneOf(chars) == [k |-> "set", chars |-> chars, neg |-> FALSE]
NoneOf(chars) == [k |-> "set", chars |-> chars, neg |-> TRUE]
Cat(xs) == [k |-> "cat", xs |-> xs]
Alt(xs) == [k |-> "alt", xs |-> xs]
Rep(x, min, max) == [k |-> "rep", x |-> x, min |-> min, max |-> max, lazy |-> FALSE, n |-> 0]
LazyRep(x, min, max) == [k |-> "rep", x |-> x, min |-> min, max |-> max, lazy |-> TRUE, n |-> 0]
Opt(x) == Rep(x, 0, 1)
Group(x) == [k |-> "group", x |-> x]
WordBoundary == [k |-> "wb"]
AtEnd == [k |-> "end"]
Space == OneOf(Whitespace)
Spaces == Rep(Space, 1, Unbounded)
MaybeSpaces == Rep(Space, 0, Unbounded)
Digit == OneOf(Digits)

RECURSIVE Interleave(_, _)
\* the nodes of xs with sep between them
Interleave(xs, sep) ==
    IF Len(xs) <= 1 THEN xs
    ELSE <<xs[1], sep>> \o Interleave(Tail(xs), sep)

\* x1\s+x2\s+...
Phrase(xs) == Cat(Interleave(xs, Spaces))

\* \b at position pos (between the characters pos - 1 and pos)
IsWordBoundary(str, pos) ==
    LET before == pos > 1 /\ IsIn(SubSeq(str, pos - 1, pos - 1), WordChars)
        after == pos <= Len(str) /\ IsIn(SubSeq(str, pos, pos), WordChars)
    IN  before # after

NoCapture == [from |-> 0, to |-> 0]

\* the first way to match when there is one, the second otherwise
OrElse(first, second) == IF first # <<>> THEN first ELSE second

RECURSIVE Match(_, _, _, _, _)
\* the backtracking matcher: todo is the sequence of nodes still to match
\* from position pos; <<[pos, cap]>> of the first way to match, <<>> when
\* there is none
Match(todo, str, ignorecase, pos, cap) ==
    IF todo = <<>> THEN <<[pos |-> pos, cap |-> cap]>>
    ELSE
    LET x == todo[1]
        rest == Tail(todo)
        Fold(s) == IF ignorecase THEN Lower(s) ELSE s
        c == SubSeq(str, pos, pos)
    IN  CASE x.k = "lit" ->
               IF /\ pos + Len(x.s) - 1 <= Len(str)
                  /\ Fold(SubSeq(str, pos, pos + Len(x.s) - 1)) = Fold(x.s)
               THEN Match(rest, str, ignorecase, pos + Len(x.s), cap)
               ELSE <<>>
          [] x.k = "set" ->
               IF /\ pos <= Len(str)
                  /\ (IsIn(c, x.chars) \/ IsIn(Fold(c), Fold(x.chars))) # x.neg
               THEN Match(rest, str, ignorecase, pos + 1, cap)
               ELSE <<>>
          [] x.k = "cat" -> Match(x.xs \o rest, str, ignorecase, pos, cap)
          [] x.k = "alt" ->
               IF x.xs = <<>> THEN <<>>
               ELSE OrElse(Match(<<x.xs[1]>> \o rest, str, ignorecase, pos, cap),
                           Match(<<Alt(Tail(x.xs))>> \o rest, str, ignorecase, pos, cap))
          [] x.k = "rep" ->
               IF x.lazy
               THEN OrElse(IF x.n >= x.min
                           THEN Match(rest, str, ignorecase, pos, cap)
                           ELSE <<>>,
                           IF x.n < x.max
                           THEN Match(<<x.x, [x EXCEPT !.n = @ + 1]>> \o rest,
                                      str, ignorecase, pos, cap)
                           ELSE <<>>)
               ELSE OrElse(IF x.n < x.max
                           THEN Match(<<x.x, [x EXCEPT !.n = @ + 1]>> \o rest,
                                      str, ignorecase, pos, cap)
                           ELSE <<>>,
                           IF x.n >= x.min
                           THEN Match(rest, str, ignorecase, pos, cap)
                           ELSE <<>>)
          [] x.k = "group" ->
               Match(<<[k |-> "open"], x.x, [k |-> "close"]>> \o rest,
                     str, ignorecase, pos, cap)
          [] x.k = "open" ->
               Match(rest, str, ignorecase, pos, [cap EXCEPT !.from = pos])
          [] x.k = "close" ->
               Match(rest, str, ignorecase, pos, [cap EXCEPT !.to = pos - 1])
          [] x.k = "wb" ->
               IF IsWordBoundary(str, pos)
               THEN Match(rest, str, ignorecase, pos, cap) ELSE <<>>
          [] x.k = "end" ->
               IF pos = Len(str) + 1
               THEN Match(rest, str, ignorecase, pos, cap) ELSE <<>>

\* the match m found at from
MatchAt(m, from) ==
    IF m # <<>> THEN <<[from |-> from, pos |-> m[1].pos, cap |-> m[1].cap]>>
    ELSE <<>>

RECURSIVE SearchFrom(_, _, _, _)
\* the leftmost match starting at from or later:
\* <<[from, pos, cap]>>, pos the position after the match
SearchFrom(pattern, str, ignorecase, from) ==
    IF from > Len(str) + 1 THEN <<>>
    ELSE OrElse(MatchAt(Match(<<pattern>>, str, ignorecase, from, NoCapture), from),
                SearchFrom(pattern, str, ignorecase, from + 1))

\* re.search(pattern, str) finds a match
Search(pattern, str, ignorecase) == SearchFrom(pattern, str, ignorecase, 1) # <<>>

RECURSIVE FindAllFrom(_, _, _, _)
RECURSIVE FindAllAfter(_, _, _, _)
\* the group of the match m and of the matches after it
FindAllAfter(m, pattern, str, ignorecase) ==
    IF m = <<>> THEN <<>>
    ELSE <<SubSeq(str, m[1].cap.from, m[1].cap.to)>>
           \o FindAllFrom(pattern, str, ignorecase,
                          IF m[1].pos > m[1].from THEN m[1].pos ELSE m[1].pos + 1)

FindAllFrom(pattern, str, ignorecase, from) ==
    FindAllAfter(SearchFrom(pattern, str, ignorecase, from), pattern, str, ignorecase)

\* re.findall(pattern, str) for a pattern with one group: the text of the
\* group in each of the non-overlapping matches, left to right
FindAll(pattern, str, ignorecase) == FindAllFrom(pattern, str, ignorecase, 1)

-----------------------------------------------------------------------------
(* services/book_conversation_service.py: detecting a book reference       *)

Languages == {"pt", "en"}

stop_phrases(language) ==
    IF language = "en"
    THEN <<"recommend", "recommends", "which", "books",
           "i have interest", "i would like", "to study",
           "about", "of", "in", "some", "any",
           "what is the context", "in relation to",
           "for beginners", "are there books",
           "changing subject", "i would like to study",
           "what is the", "context", "relation", "others",
           "available", "from the saga", "saga",
           "this book", "that book", "the book",
           "a book", "books", "the books",
           "i wanted to know", "could you tell me",
           "do you have", "do you know",
           "what would be", "what are", "which would be">>
    ELSE <<"me recomenda", "recomenda", "quais", "livros",
           "tenho interesse", "gostaria", "para estudar",
           "sobre", "de", "em", "algum", "alguma",
           "qual o contexto", "em relação aos",
           "para iniciantes", "tem livros",
           "mudando de assunto", "gostaria de estudar",
           "qual o", "contexto", "relação", "outros",
           "tem disponível", "tem disponivel", "disponível",
           "da saga", "saga", "harry potter",
           "esse livro", "este livro", "aquele livro",
           "o livro", "a livro", "os livros", "as livros",
           "queria saber", "poderia me dizer",
           "você tem", "você conhece",
           "qual seria", "quais são", "quais seriam">>

common_words_list(language) ==
    IF language = "en"
    THEN {"what", "which", "how", "where", "when", "why", "for", "with",
          "without", "in", "of", "and", "or", "a", "an", "the"}
    ELSE {"qual", "que", "como", "onde", "quando", "porque", "para", "com",
          "sem", "em", "de", "e", "ou", "a", "o", "os", "as", "um", "uma",
          "uns", "umas"}

\* ["\']
Quote == OneOf("\"'")
\* ["\']?([^"\'\n]{5,50})["\']?
TitleText == Cat(<<Opt(Quote), Group(Rep(NoneOf("\"'\n"), 5, 50)), Opt(Quote)>>)
\* ["\'](.+?)["\']
QuotedText == Cat(<<Quote, Group(LazyRep(NoneOf("\n"), 1, Unbounded)), Quote>>)

book_reference_patterns(language) ==
    IF language = "en"
    THEN <<QuotedText,
           Cat(<<WordBoundary, Alt(<<Lit("the"), Lit("a")>>), Spaces, Lit("book"),
                 Spaces, TitleText,
                 Alt(<<Space, AtEnd, Lit("."), Lit("?"), Lit(",")>>)>>),
           Cat(<<WordBoundary, Lit("book"), Spaces,
                 Alt(<<Lit("called"), Lit("titled")>>), Spaces, TitleText,
                 Alt(<<Space, AtEnd, Lit(".")>>)>>),
           Cat(<<TitleText, Spaces, Alt(<<Lit("is"), Lit("was")>>), Spaces,
                 Opt(Cat(<<Lit("a"), Spaces>>)), Lit("book")>>)>>
    ELSE <<QuotedText,
           Cat(<<WordBoundary, Alt(<<Lit("o"), Lit("a")>>), Spaces, Lit("livro"),
                 Spaces, TitleText,
                 Alt(<<Space, AtEnd, Lit("."), Lit("?"), Lit(",")>>)>>),
           Cat(<<WordBoundary, Lit("livro"), Spaces,
                 Alt(<<Lit("chamado"), Lit("intitulado")>>), Spaces, TitleText,
                 Alt(<<Space, AtEnd, Lit(".")>>)>>),
           Cat(<<TitleText, Spaces, Alt(<<Lit("é"), Lit("foi")>>), Spaces,
                 Opt(Cat(<<Lit("um"), Spaces>>)), Lit("livro")>>)>>

always_general_patterns(language) ==
    IF language = "en"
    THEN <<Cat(<<Lit("recommend"), Spaces, Opt(Cat(<<Lit("me"), Spaces>>)),
                 Lit("book"), Opt(Lit("s"))>>),
           Phrase(<<Lit("which"), Lit("books")>>),
           Phrase(<<Lit("i"), Lit("have"), Lit("interest"), Lit("in")>>),
           Phrase(<<Lit("i"), Lit("would"), Lit("like"), Lit("to"),
                    Alt(<<Lit("study"), Lit("learn"), Lit("know")>>)>>),
           Phrase(<<Lit("to"), Lit("study")>>),
           Phrase(<<Lit("books"), Alt(<<Lit("for"), Lit("about"), Lit("on")>>)>>),
           Phrase(<<Lit("are"), Lit("there"), Lit("books")>>),
           Phrase(<<Lit("search"), Lit("for"), Lit("books")>>),
           Phrase(<<Lit("look"), Lit("for"), Lit("books")>>),
           Phrase(<<Lit("i"), Lit("wanted"), Lit("books")>>),
           Phrase(<<Lit("i"), Lit("want"), Lit("books")>>),
           Phrase(<<Lit("i"), Lit("need"), Lit("books")>>),
           Phrase(<<Lit("changing"), Lit("subject")>>),
           Phrase(<<Lit("i"), Lit("would"), Lit("like"), Lit("to"), Lit("study")>>),
           Phrase(<<Lit("what"), Lit("is"), Lit("the"), Lit("context")>>),
           Phrase(<<Lit("in"), Lit("relation"), Lit("to")>>),
           Phrase(<<Lit("from"), Lit("the"), Lit("saga")>>),
           Phrase(<<Lit("for"), Lit("beginners")>>)>>
    ELSE <<Cat(<<Lit("me"), Spaces, Lit("recomenda"), Opt(OneOf("dr")), Spaces,
                 Lit("livro"), Opt(Lit("s"))>>),
           Phrase(<<Lit("quais"), Lit("livros")>>),
           Phrase(<<Lit("tenho"), Lit("interesse"), Lit("em")>>),
           Phrase(<<Lit("gostaria"), Lit("de"),
                    Alt(<<Lit("estudar"), Lit("aprender"), Lit("saber")>>)>>),
           Phrase(<<Lit("para"), Lit("estudar")>>),
           Phrase(<<Lit("livros"), Alt(<<Lit("para"), Lit("sobre"), Lit("de")>>)>>),
           Phrase(<<Lit("tem"), Lit("livros")>>),
           Phrase(<<Lit("buscar"), Lit("livros")>>),
           Phrase(<<Lit("procurar"), Lit("livros")>>),
           Phrase(<<Lit("queria"), Lit("livros")>>),
           Phrase(<<Cat(<<Lit("quer"), Opt(OneOf("ia"))>>), Lit("livros")>>),
           Phrase(<<Lit("preciso"), Lit("de"), Lit("livros")>>),
           Phrase(<<Lit("mudando"), Lit("de"), Lit("assunto")>>),
           Phrase(<<Lit("gostaria"), Lit("de"), Lit("estudar")>>),
           Phrase(<<Lit("qual"), Lit("o"), Lit("contexto")>>),
           Phrase(<<Lit("em"), Lit("relação"), Lit("aos")>>),
           Phrase(<<Lit("da"), Lit("saga")>>),
           Phrase(<<Lit("para"), Lit("iniciantes")>>)>>

\* (\d{4,})
IdDigits == Group(Rep(Digit, 4, Unbounded))

id_patterns ==
    <<Cat(<<WordBoundary, Lit("ID"), MaybeSpaces, Opt(OneOf(":#")), MaybeSpaces,
            IdDigits, WordBoundary>>),
      Cat(<<WordBoundary, Lit("id"), MaybeSpaces, Opt(OneOf(":#")), MaybeSpaces,
            IdDigits, WordBoundary>>),
      Cat(<<WordBoundary, Lit("livro"), Spaces,
            Opt(Alt(<<Lit("número"), Lit("num"), Lit("nº"), Lit("n°"), Lit("#")>>)),
            MaybeSpaces, IdDigits, WordBoundary>>),
      Cat(<<WordBoundary, IdDigits, Spaces, Opt(Alt(<<Lit("º"), Lit("°")>>)),
            Spaces, Alt(<<Lit("livro"), Lit("book")>>), WordBoundary>>)>>

\* words = text_lower.split(): three words or fewer, all of them common
OnlyCommonWords(words, language) ==
    /\ Len(words) <= 3
    /\ \A i \in 1..Len(words) :
           Len(words[i]) > 2 => words[i] \in common_words_list(language)

\* text_lower = text.lower().strip()
IsStopPhraseLower(text, text_lower, language) ==
    \/ \E i \in 1..Len(stop_phrases(language)) :
           Contains(text_lower, stop_phrases(language)[i])
    \/ Len(Strip(text)) < 4
    \/ OnlyCommonWords(Split(text_lower), language)

_is_stop_phrase(text, language) == IsStopPhraseLower(text, Lower(text), language)

_is_always_general_request(message, language) ==
    \E i \in 1..Len(always_general_patterns(language)) :
        Search(always_general_patterns(language)[i], Lower(message), TRUE)

RECURSIVE ToInt(_)
\* int(digits)
ToInt(digits) ==
    IF digits = "" THEN 0
    ELSE LET last == SubSeq(digits, Len(digits), Len(digits))
             d == CHOOSE n \in 0..9 : SubSeq(Digits, n + 1, n + 1) = last
         IN  10 * ToInt(SubSeq(digits, 1, Len(digits) - 1)) + d

RECURSIVE FindAllOf(_, _, _)
\* re.findall of each pattern in turn, the matches in the order met
FindAllOf(patterns, str, ignorecase) ==
    IF patterns = <<>> THEN <<>>
    ELSE FindAll(Head(patterns), str, ignorecase)
           \o FindAllOf(Tail(patterns), str, ignorecase)

\* the ids the id patterns find, in the order the code meets them
FoundIds(message) == FindAllOf(id_patterns, message, FALSE)

\* matches[0].strip() of the matches of a pattern
FirstStripped(matches) == IF matches = <<>> THEN None ELSE Some(Strip(matches[1]))

\* the first quoted text: re.findall(r'"([^"]+)"', message)[0], stripped
Quoted(message, quote) ==
    FirstStripped(FindAll(Cat(<<Lit(quote), Group(Rep(NoneOf(quote), 1, Unbounded)),
                                Lit(quote)>>), message, FALSE))

\* a check of the length alone
IsTitleByLength(title, language) == Len(title) > 3

IsTitle(title, language) == Len(title) > 3 /\ ~_is_stop_phrase(title, language)

\* the matches, stripped
Stripped(matches) == [i \in 1..Len(matches) |-> Strip(matches[i])]

\* the titles the reference patterns find, stripped, in the order the code
\* meets them
PatternTitles(message, language) ==
    Stripped(FindAllOf(book_reference_patterns(language), message, TRUE))

\* the texts that pass for a title
Titles(texts, language) == SelectSeq(texts, LAMBDA t : IsTitle(t, language))

Reference(title, book_id) == [title |-> title, book_id |-> book_id]

\* the quoted text when it passes for a title
QuotedTitle(quoted, language) ==
    IF quoted # None /\ IsTitle(quoted[1], language) THEN quoted ELSE None

\* the reference the ids, quoted texts and pattern titles give: an id first,
\* then a title in double quotes, in single quotes, of a pattern
ReferenceOf(ids, double, single, titles) ==
    IF ids # <<>> THEN Reference(None, Some(ToInt(ids[1])))
    ELSE IF double # None THEN Reference(double, None)
    ELSE IF single # None THEN Reference(single, None)
    ELSE IF titles # <<>> THEN Reference(Some(titles[1]), None)
    ELSE Reference(None, None)

\* the steps of detect_book_reference after the general-request check
ReferenceUnchecked(message, language) ==
    ReferenceOf(FoundIds(message),
                QuotedTitle(Quoted(message, "\""), language),
                QuotedTitle(Quoted(message, "'"), language),
                Titles(PatternTitles(message, language), language))

ReferenceBeforeGeneral(message, language) == ReferenceUnchecked(message, language)

detect_book_reference(message, language) ==
    IF _is_always_general_request(message, language)
    THEN Reference(None, None)
    ELSE ReferenceUnchecked(message, language)

\* (\d{3,})
ShortIdDigits == Group(Rep(Digit, 3, Unbounded))

\* the id patterns of detect_multiple_books
multiple_id_patterns ==
    <<Cat(<<WordBoundary, Alt(<<Lit("ID"), Lit("id"), Lit("Id")>>), MaybeSpaces,
            Opt(OneOf(":#")), MaybeSpaces, ShortIdDigits, WordBoundary>>),
      Cat(<<WordBoundary, Lit("livro"), Spaces,
            Opt(Alt(<<Lit("número"), Lit("num"), Lit("nº"), Lit("n°"), Lit("#")>>)),
            MaybeSpaces, ShortIdDigits, WordBoundary>>),
      Cat(<<WordBoundary, IdDigits, Spaces, Opt(Alt(<<Lit("º"), Lit("°")>>)),
            Spaces, Alt(<<Lit("livro"), Lit("book")>>), WordBoundary>>)>>

RECURSIVE Distinct(_)
\* list without the later copies of its elements
Distinct(list) ==
    IF list = <<>> THEN <<>>
    ELSE LET front == Distinct(SubSeq(list, 1, Len(list) - 1))
             last == list[Len(list)]
         IN  IF \E i \in 1..Len(front) : front[i] = last THEN front
             ELSE Append(front, last)

\* every text between quote characters, stripped, that is a title
QuotedTitles(message, quote, language) ==
    Titles(Stripped(FindAll(Cat(<<Lit(quote), Group(Rep(NoneOf(quote), 1, Unbounded)),
                                  Lit(quote)>>), message, FALSE)), language)

\* the <<title, book_id>> pairs of the ids and the titles found
BookPairs(ids, titles) ==
    [i \in 1..Len(ids) |-> <<None, Some(ToInt(ids[i]))>>]
       \o [i \in 1..Len(titles) |-> <<Some(titles[i]), None>>]

\* the <<title, book_id>> pairs of a message, in the order found
detect_multiple_books(message, language) ==
    IF _is_always_general_request(message, language) THEN <<>>
    ELSE Distinct(BookPairs(FindAllOf(multiple_id_patterns, message, FALSE),
                            QuotedTitles(message, "\"", language)
                               \o QuotedTitles(message, "'", language)
                               \o Titles(PatternTitles(message, language), language)))

\* the upper-case letter of each lower-case letter
UpperOf ==
    [c \in {SubSeq(LowerCase, i, i) : i \in 1..Len(LowerCase)} |->
        LET i == CHOOSE j \in 1..Len(LowerCase) : SubSeq(LowerCase, j, j) = c
        IN  SubSeq(UpperCase, i, i)] @@ <<>>

\* str.upper() of a one-character string
UpperChar(c) == IF c \in DOMAIN UpperOf THEN UpperOf[c] ELSE c

\* str.isalpha() of a one-character string
IsAlpha(c) == c \in DOMAIN UpperOf \/ c \in DOMAIN LowerOf

\* str.find(sub): the index, from 0, of the first occurrence of sub, or -1
Find(str, sub) ==
    LET at == {i \in 1..(Len(str) - Len(sub) + 1) :
                  SubSeq(str, i, i + Len(sub) - 1) = sub}
    IN  IF at = {} THEN -1 ELSE (CHOOSE i \in at : \A j \in at : i <= j) - 1

RECURSIVE StripChars(_, _)
\* str.strip(chars)
StripChars(str, chars) ==
    IF Len(str) = 0 THEN ""
    ELSE IF Contains(chars, SubSeq(str, 1, 1))
         THEN StripChars(SubSeq(str, 2, Len(str)), chars)
    ELSE IF Contains(chars, SubSeq(str, Len(str), Len(str)))
         THEN StripChars(SubSeq(str, 1, Len(str) - 1), chars)
    ELSE str

start_indicators(language) ==
    IF language = "en"
    THEN <<"book", "novel", "story", "tale", "title", "called", "named">>
    ELSE <<"livro", "obra", "romance", "conto", "novela", "título", "chamado",
           "intitulado">>

end_indicators(language) ==
    IF language = "en"
    THEN <<"is", "was", "has", "by", "written", "published", "author">>
    ELSE <<"é", "foi", "tem", "possui", "é um", "do autor", "escrito",
           "publicado">>

\* title_end after one more end word found at end_pos
EndAt(end_pos, title_end) ==
    IF end_pos > 0 /\ end_pos < title_end THEN end_pos ELSE title_end

RECURSIVE TitleEnd(_, _, _)
\* title_end after the loop over the end words
TitleEnd(remaining_lower, end_words, title_end) ==
    IF end_words = <<>> THEN title_end
    ELSE TitleEnd(remaining_lower, Tail(end_words),
                  EndAt(Find(remaining_lower, Head(end_words)), title_end))

\* word[0].upper() + word[1:].lower() when the word starts with a letter
Capitalized(word) ==
    IF IsAlpha(SubSeq(word, 1, 1))
    THEN UpperChar(SubSeq(word, 1, 1)) \o Lower(SubSeq(word, 2, Len(word)))
    ELSE word

\* the possible title when it passes, each of its words capitalized
PossibleTitle(possible_title, language) ==
    IF /\ 3 <= Len(possible_title)
       /\ Len(possible_title) <= 100
       /\ ~_is_stop_phrase(possible_title, language)
    THEN Some(Join([i \in 1..Len(Split(possible_title)) |->
                       Capitalized(Split(possible_title)[i])]))
    ELSE None

\* remaining[:title_end].strip().strip(' "\':;,.-')
Span(remaining, language) ==
    StripChars(Strip(SubSeq(remaining, 1,
                            TitleEnd(Lower(remaining), end_indicators(language),
                                     Len(remaining)))),
               " \"':;,.-")

\* the title after one indicator at idx, if any
TitleAfter(message, idx, indicator, language) ==
    IF idx = -1 THEN None
    ELSE PossibleTitle(Span(Strip(SubSeq(message, idx + Len(indicator) + 1,
                                         Len(message))), language), language)

RECURSIVE HeuristicFrom(_, _, _)
\* the loop over the indicators: the first that gives a title ends it
HeuristicFrom(indicators, message, language) ==
    IF indicators = <<>> THEN None
    ELSE IF TitleAfter(message, Find(Lower(message), Head(indicators)),
                       Head(indicators), language) # None
         THEN TitleAfter(message, Find(Lower(message), Head(indicators)),
                         Head(indicators), language)
    ELSE HeuristicFrom(Tail(indicators), message, language)

_extract_title_heuristic(message, language) ==
    HeuristicFrom(start_indicators(language), message, language)

\* how the messages open: general requests of either language, and others
Openings ==
    {"", "me recomenda livros", "Me Recomende livros", "livros sobre",
     "Quero livros", "fale sobre", "recommend me books", "Which  books",
     "tell me about"}

\* how the messages go on: with an id, a quoted title, a title in a phrase,
\* or nothing
References ==
    {"", "ID 1001", "id:1003", "ID 123", "livro nº 1004", "2001  livro",
     "\"Dune\"", "\"de\" 'Neuromancer'", "o livro Crooked Kingdom",
     "the book Dune Messiah?", "Duna é um livro", "\"Dxyz\" e \"DUNE\"",
     "romance Neuromancer", "obra Duna foi publicada", "novel dune by Herbert",
     "\"me recomenda\"", "'para uma'", "\"um bom\""}

DetectInputs ==
    {[fn |-> f, message |-> Strip(o \o " " \o r), language |-> l] :
        f \in {"detect_book_reference", "detect_multiple_books",
                "_extract_title_heuristic"},
        o \in Openings, r \in References, l \in Languages}

detect_reference ==
    /\ fin # None
    /\ fin[1].fn = "detect_book_reference"
    /\ fout = None
    /\ fout' = Some(detect_book_reference(fin[1].message, fin[1].language))
    /\ UNCHANGED <<now, store, mgr, call, pc, loc, writers, fin>>

detect_multiple ==
    /\ fin # None
    /\ fin[1].fn = "detect_multiple_books"
    /\ fout = None
    /\ fout' = Some(detect_multiple_books(fin[1].message, fin[1].language))
    /\ UNCHANGED <<now, store, mgr, call, pc, loc, writers, fin>>

extract_title_heuristic ==
    /\ fin # None
    /\ fin[1].fn = "_extract_title_heuristic"
    /\ fout = None
    /\ fout' = Some(_extract_title_heuristic(fin[1].message, fin[1].language))
    /\ UNCHANGED <<now, store, mgr, call, pc, loc, writers, fin>>

InitDetect == InitPure /\ fin \in {Some(i) : i \in DetectInputs}

NextDetect == detect_reference \/ detect_multiple \/ extract_title_heuristic

SpecDetect == InitDetect /\ [][NextDetect]_vars

-----------------------------------------------------------------------------
(* Title similarity (services/book_conversation_service.py)                *)

RECURSIVE CommonPrefix(_, _, _, _)
\* the length of the longest common prefix of a[i..] and b[j..]
CommonPrefix(a, b, i, j) ==
    IF i > Len(a) \/ j > Len(b) \/ SubSeq(a, i, i) # SubSeq(b, j, j) THEN 0
    ELSE 1 + CommonPrefix(a, b, i + 1, j + 1)

\* SequenceMatcher.find_longest_match over the whole of a and b: the longest
\* matching block, the one starting earliest in a, then earliest in b
\* (there is no junk: autojunk needs a second sequence of 200 elements)
find_longest_match(a, b) ==
    LET size == [p \in (1..Len(a)) \X (1..Len(b)) |-> CommonPrefix(a, b, p[1], p[2])]
        best == CHOOSE p \in DOMAIN size :
                    \A q \in DOMAIN size :
                        \/ size[p] > size[q]
                        \/ /\ size[p] = size[q]
                           /\ \/ p[1] < q[1]
                              \/ p[1] = q[1] /\ p[2] <= q[2]
    IN  IF Len(a) = 0 \/ Len(b) = 0 THEN <<1, 1, 0>>
        ELSE <<best[1], best[2], size[best]>>

RECURSIVE MatchingSize(_, _)
RECURSIVE MatchingAround(_, _, _)
\* the size of the block m and of the blocks to its left and to its right
MatchingAround(m, a, b) ==
    IF m[3] = 0 THEN 0
    ELSE m[3] + MatchingSize(SubSeq(a, 1, m[1] - 1), SubSeq(b, 1, m[2] - 1))
              + MatchingSize(SubSeq(a, m[1] + m[3], Len(a)),
                             SubSeq(b, m[2] + m[3], Len(b)))

\* the sum of the sizes of SequenceMatcher.get_matching_blocks()
MatchingSize(a, b) == MatchingAround(find_longest_match(a, b), a, b)

\* scores are fractions <<numerator, denominator>>
Gt(x, y) == x[1] * y[2] > y[1] * x[2]

\* SequenceMatcher(None, a, b).ratio()
Ratio(a, b) ==
    IF Len(a) + Len(b) = 0 THEN <<1, 1>>
    ELSE <<2 * MatchingSize(a, b), Len(a) + Len(b)>>

\* _calculate_similarity(str1, str2)
_calculate_similarity(str1, str2) == Ratio(Lower(str1), Lower(str2))

\* the number of positions at which both word lists hold the same word
OrderBonus(query_words, title_words_list) ==
    LET shorter == IF Len(query_words) < Len(title_words_list)
                   THEN Len(query_words) ELSE Len(title_words_list)
    IN  Cardinality({i \in 1..shorter : query_words[i] = title_words_list[i]})

\* min(score, 0.8)
AtMostEightTenths(score) == IF Gt(score, <<8, 10>>) THEN <<8, 10>> ELSE score

\* word_score + order_bonus over the longest word list: common words of
\* them, order_bonus tenths of 1 / longest each
WordScore(common, order_bonus, longest) ==
    <<10 * common + order_bonus * longest, 10 * longest>>

\* similarity * 0.7
SevenTenths(ratio) == <<7 * ratio[1], 10 * ratio[2]>>

\* the steps of _calculate_title_similarity given title.split()
TitleSimilarity(query, title, query_words, title_words_list) ==
    IF query = Lower(title) THEN <<10, 10>>
    ELSE IF Contains(title, query) \/ Contains(query, title) THEN <<9, 10>>
    ELSE IF ListToSet(title_words_list) \cap ListToSet(query_words) # {}
         THEN AtMostEightTenths(
                  WordScore(Cardinality(ListToSet(title_words_list)
                                           \cap ListToSet(query_words)),
                            OrderBonus(query_words, title_words_list),
                            IF Len(query_words) > Len(title_words_list)
                            THEN Len(query_words) ELSE Len(title_words_list)))
    ELSE IF Len(query) < 20 /\ Len(title) < 20
         THEN SevenTenths(Ratio(query, title))
    ELSE <<0, 10>>

\* _calculate_title_similarity(query, title, query_words)
_calculate_title_similarity(query, title, query_words) ==
    TitleSimilarity(query, title, query_words, Split(title))

-----------------------------------------------------------------------------
(* Book reference resolution (services/book_conversation_service.py)       *)

\* a book dict with the two keys the resolution reads
BookRef(book_id, title) == [book_id |-> Some(book_id), title |-> title]

\* the rows of data_loader.data, in row order
Catalog ==
    <<[id |-> 1001, title |-> "Six of Crows"],
      [id |-> 1002, title |-> "Dune Messiah"],
      [id |-> 1003, title |-> "Dune"],
      [id |-> 1004, title |-> "Crooked Kingdom"]>>

\* the name of the id column of the dataset
IdColumns == {"book_id", "bookId"}

\* the lists of books a session was last shown
RecLists ==
    {<<BookRef(1001, "Six of Crows"), BookRef(0, "Dune")>>,
     <<BookRef(2001, "Neuromancer"), BookRef(1004, "Crooked Kingdom")>>}

\* book.get('title', '')
TitleOf(book) == IF "title" \in DOMAIN book THEN book.title ELSE ""

\* book.get('book_id')
IdOf(book) == IF "book_id" \in DOMAIN book THEN book.book_id ELSE None

\* the first element of list that satisfies P, None when there is none
First(list, P(_)) ==
    IF \E i \in 1..Len(list) : P(list[i])
    THEN Some(list[CHOOSE i \in 1..Len(list) :
                     P(list[i]) /\ \A j \in 1..(i - 1) : ~P(list[j])])
    ELSE None

\* the recommendation the title branch of get_book_from_context returns
TitleMatches(book_title, book) ==
    LET query_lower == Lower(book_title)
        book_title_lower == Lower(TitleOf(book))
    IN  \/ query_lower = book_title_lower
        \/ Contains(book_title_lower, query_lower)
        \/ Contains(query_lower, book_title_lower)

\* the test of find_book_by_title_fuzzy on a recommendation
FuzzyMatches(title_query, book) ==
    \/ TitleMatches(title_query, book)
    \/ Gt(_calculate_similarity(Lower(title_query), Lower(TitleOf(book))), <<7, 10>>)

RECURSIVE ScanCatalog(_, _, _, _, _)
RECURSIVE ScanRow(_, _, _, _, _, _)
\* row i scores score: it becomes the best match when it beats best_score,
\* and the loop breaks when it scores above 0.9
ScanRow(rows, query_lower, i, best_match, best_score, score) ==
    IF Gt(score, best_score)
    THEN IF Gt(score, <<9, 10>>) THEN <<i, score>>
         ELSE ScanCatalog(rows, query_lower, i + 1, i, score)
    ELSE IF Gt(score, <<9, 10>>) THEN <<best_match, best_score>>
         ELSE ScanCatalog(rows, query_lower, i + 1, best_match, best_score)

\* the loop of find_book_by_title_fuzzy over the rows from i on:
\* <<best_match, best_score>>, best_match a row number or 0
ScanCatalog(rows, query_lower, i, best_match, best_score) ==
    IF i > Len(rows) THEN <<best_match, best_score>>
    ELSE IF Lower(rows[i].title) = ""
    THEN ScanCatalog(rows, query_lower, i + 1, best_match, best_score)
    ELSE ScanRow(rows, query_lower, i, best_match, best_score,
                 _calculate_title_similarity(query_lower, Lower(rows[i].title),
                                             Split(query_lower)))

\* the book dict of a row of the dataset
RowBook(env, row) ==
    [book_id |-> Some(IF env.id_column = "bookId" THEN row.id ELSE 0),
     title |-> row.title]

\* the best row when it scores above 0.3
BestRow(env, found) ==
    IF found[1] # 0 /\ Gt(found[2], <<3, 10>>)
    THEN Some(RowBook(env, env.catalog[found[1]])) ELSE None

\* a scan that accepts whatever scores best, without a threshold
BestRowNoThreshold(env, found) ==
    IF found[1] # 0 THEN Some(RowBook(env, env.catalog[found[1]])) ELSE None

CatalogMatchNoThreshold(env, title_query) ==
    BestRowNoThreshold(env, ScanCatalog(env.catalog, Lower(title_query), 1, 0, <<0, 10>>))

\* part 2 of find_book_by_title_fuzzy: the dataset
CatalogMatch(env, title_query) ==
    BestRow(env, ScanCatalog(env.catalog, Lower(title_query), 1, 0, <<0, 10>>))

\* the recommendation that matches, or else the row of the dataset
ShownOrCatalog(shown, row) ==
    IF shown # None THEN [ret |-> shown, searched |-> FALSE]
    ELSE [ret |-> row, searched |-> TRUE]

\* find_book_by_title_fuzzy given what get_last_recommendations returns
\* (None without a session_id): the book and whether the dataset was scanned
FuzzyResult(env, recommendations, title_query) ==
    ShownOrCatalog(IF Truthy(recommendations)
                   THEN First(recommendations[1],
                              LAMBDA book : FuzzyMatches(title_query, book))
                   ELSE None,
                   CatalogMatch(env, title_query))

\* the book dict of the row found
RowWithId(row, book_id) ==
    IF row # None THEN Some(BookRef(book_id, row[1].title)) ELSE None

\* search_engine.get_book_by_id and _book_result_to_dict
get_book_by_id(env, book_id) ==
    IF env.id_column = "book_id"
    THEN RowWithId(First(env.catalog, LAMBDA row : row.id = book_id), book_id)
    ELSE None

\* if book_id:
UseId(book_id) == book_id # None /\ book_id[1] # 0

\* if book_title: (the callers pass stripped titles)
UseTitle(book_title) == book_title # None /\ Strip(book_title[1]) # ""

\* the order of get_book_from_context: the recommendation with the id, the
\* row with the id, the recommendation with the title, the fuzzy search
ResolvedFrom(useId, useTitle, shownById, byId, shownByTitle, fuzzy) ==
    IF shownById # None
    THEN [ret |-> shownById, searched |-> FALSE, redis |-> TRUE]
    ELSE IF byId # None THEN [ret |-> byId, searched |-> TRUE, redis |-> TRUE]
    ELSE IF ~useTitle THEN [ret |-> None, searched |-> useId, redis |-> useId]
    ELSE IF shownByTitle # None
         THEN [ret |-> shownByTitle, searched |-> FALSE, redis |-> TRUE]
    ELSE [ret |-> fuzzy.ret, searched |-> useId \/ fuzzy.searched,
          redis |-> TRUE]

\* get_book_from_context given what get_last_recommendations returns: the
\* book, whether the dataset was consulted and whether Redis was
Resolved(env, recommendations, book_title, book_id) ==
    ResolvedFrom(UseId(book_id), UseTitle(book_title),
                 IF UseId(book_id) /\ Truthy(recommendations)
                 THEN First(recommendations[1], LAMBDA book : IdOf(book) = book_id)
                 ELSE None,
                 IF UseId(book_id) THEN get_book_by_id(env, book_id[1]) ELSE None,
                 IF UseTitle(book_title) /\ Truthy(recommendations)
                 THEN First(recommendations[1],
                            LAMBDA book : TitleMatches(book_title[1], book))
                 ELSE None,
                 FuzzyResult(env, recommendations, book_title[1]))

\* the titles and ids the callers look up
LookupTitles ==
    {"six of crows", "DUNE", "Dunes", "Crows", "Kingdom Crooked", "Dime",
     "Dxyz", "Quantum Mechanics Fundamentals", "Six of Crowns",
     "the crooked crown", "Neuromancr"}

LookupIds == {0, 1001, 1003, 2001, 9999}

\* the (book_title, book_id) pairs of detect_book_reference and
\* detect_multiple_books: one of the two is None
LookupArgs ==
    {<<Some(t), None>> : t \in LookupTitles} \cup {<<None, Some(i)>> : i \in LookupIds}

\* the dataset and its schema
ResolveEnvironments == [id_column : IdColumns, catalog : {Catalog}]

\* what get_last_recommendations returns in a session that was shown
\* nothing or one of the lists
ShownOptions == {None} \cup {Some(b) : b \in RecLists}

\* Resolved and FuzzyResult on the inputs of the model, as tables
ResolvedOn ==
    [k \in ResolveEnvironments \X ShownOptions \X LookupArgs |->
        Resolved(k[1], k[2], k[3][1], k[3][2])] @@ <<>>

FuzzyResultOn ==
    [k \in ResolveEnvironments \X ShownOptions \X LookupTitles |->
        FuzzyResult(k[1], k[2], k[3])] @@ <<>>

ResolveCall(op, session_id, book_title, book_id, failAt) ==
    [op |-> op, sid |-> session_id, book_title |-> book_title,
     book_id |-> book_id, failAt |-> failAt,
     recs |-> Loaded(store, session_id).last_recommendations,
     outcome |-> IF failAt = NoFailure THEN "ok" ELSE "raised",
     ret |-> None, searched |-> FALSE]

\* the store after the get_last_recommendations calls of a lookup
Refreshed(st, session_id) == Saved(st, session_id, Loaded(st, session_id))

\* the lookup c ends with the result r
LookedUp(c, r, session_id, failAt) ==
    /\ failAt # NoFailure => r.redis
    /\ IF failAt = NoFailure
       THEN /\ store' = IF r.redis THEN Refreshed(store, session_id) ELSE store
            /\ call' = [c EXCEPT !.ret = r.ret, !.searched = r.searched]
       ELSE /\ store' = store
            /\ call' = c

\* failAt = 1, 2: redis.get, redis.setex of the first
\* get_last_recommendations raises
get_book_from_context(session_id, book_title, book_id, failAt) ==
    /\ fin # None
    /\ LookedUp(ResolveCall("get_book_from_context", session_id, book_title,
                            book_id, failAt),
                ResolvedOn[<<fin[1], Loaded(store, session_id).last_recommendations,
                             <<book_title, book_id>>>>],
                session_id, failAt)
    /\ UNCHANGED <<now, mgr, pc, loc, writers, fin, fout>>

\* the fuzzy search c, given the recommendations it reads, ends with the
\* result r
FuzzyEnded(c, recs, r, session_id, failAt) ==
    IF failAt = NoFailure
    THEN /\ store' = IF session_id # None THEN Refreshed(store, session_id[1])
                     ELSE store
         /\ call' = [c EXCEPT !.recs = recs, !.ret = r.ret,
                              !.searched = r.searched]
    ELSE /\ store' = store
         /\ call' = [c EXCEPT !.recs = recs]

FuzzyLookedUp(c, recs, title_query, session_id, failAt) ==
    FuzzyEnded(c, recs, FuzzyResultOn[<<fin[1], recs, title_query>>], session_id, failAt)

\* find_book_by_title_fuzzy(title_query, session_id), session_id None or a
\* session id
find_book_by_title_fuzzy(title_query, session_id, failAt) ==
    /\ fin # None
    /\ failAt # NoFailure => session_id # None
    /\ FuzzyLookedUp([ResolveCall("find_book_by_title_fuzzy", "s1",
                                  Some(title_query), None, failAt)
                         EXCEPT !.sid = IF session_id = None THEN ""
                                        ELSE session_id[1]],
                     IF session_id = None THEN None
                     ELSE Loaded(store, session_id[1]).last_recommendations,
                     title_query, session_id, failAt)
    /\ UNCHANGED <<now, mgr, pc, loc, writers, fin, fout>>

\* the messages chat_about_book is called with
ChatMessages ==
    {"oi tudo bem", "me recomenda livros ID 1001", "fale sobre o livro ID 1001",
     "e o ID: 9999", "ID 0000", "gostei de \"DUNE\"", "conhece 'Neuromancr'",
     "\"Dxyz\""}

ChatLanguages == {"pt", "en"}

DetectedOn ==
    [k \in ChatMessages \X ChatLanguages |-> detect_book_reference(k[1], k[2])] @@ <<>>

\* the answers _generate_book_conversation_response returns: the model's
\* text, or the fallback text when the model fails
Responses == {"llm", "fallback"}

\* the call, given what detect_book_reference gives
ChatCallOn(reference, user_message, session_id, language, failAt) ==
    [op |-> "chat_about_book", sid |-> session_id, message |-> user_message,
     language |-> language, failAt |-> failAt,
     title |-> reference.title, book_id |-> reference.book_id,
     recs |-> Loaded(store, session_id).last_recommendations,
     outcome |-> IF failAt = NoFailure THEN "ok" ELSE "raised",
     context |-> "", response |-> None, book |-> None]

ChatCall(user_message, session_id, language, failAt) ==
    ChatCallOn(DetectedOn[<<user_message, language>>], user_message, session_id,
               language, failAt)

\* the store after add_message(session_id, role, content)
Added(st, session_id, role, content) ==
    Saved(Saved(st, session_id, Loaded(st, session_id)), session_id,
          Updated(Loaded(st, session_id), role, content, None, None))

\* if not book_title and not book_id:
NothingNamed(title, book_id) ==
    (title = None \/ title = Some("")) /\ (book_id = None \/ book_id = Some(0))

\* the call c ends, given r, what get_book_from_context gives, looked, the
\* store after it, and asked, the store after the first add_message
ChatEnded(c, r, looked, asked, session_id, response, failAt) ==
    IF NothingNamed(c.title, c.book_id)
    THEN /\ failAt = NoFailure
         /\ response = "fallback"
         /\ store' = store
         /\ call' = [c EXCEPT !.context = "no_book_reference",
                              !.response = Some("no_book_reference")]
    ELSE IF failAt = 1
    THEN /\ r.redis
         /\ response = "fallback"
         /\ store' = store
         /\ call' = c
    ELSE IF r.ret = None
    THEN /\ failAt = NoFailure
         /\ response = "fallback"
         /\ store' = looked
         /\ call' = [c EXCEPT !.context = "book_not_found",
                              !.response = Some("book_not_found")]
    ELSE /\ failAt = 2 => response = "fallback"
         /\ store' = CASE failAt = NoFailure ->
                            Added(asked, session_id, "assistant", response)
                       [] failAt = 2 -> looked
                       [] failAt = 3 -> looked
                       [] failAt = 4 -> asked
         /\ call' = IF failAt = NoFailure
                    THEN [c EXCEPT !.context = "book_conversation",
                                   !.response = Some(response),
                                   !.book = r.ret]
                    ELSE c

ChatLooked(c, r, looked, user_message, session_id, response, failAt) ==
    ChatEnded(c, r, looked, Added(looked, session_id, "user", user_message),
              session_id, response, failAt)

ChatResolved(c, r, user_message, session_id, response, failAt) ==
    ChatLooked(c, r, IF r.redis THEN Refreshed(store, session_id) ELSE store,
               user_message, session_id, response, failAt)

ChatDetected(c, user_message, session_id, response, failAt) ==
    ChatResolved(c, ResolvedOn[<<fin[1], c.recs, <<c.title, c.book_id>>>>],
                 user_message, session_id, response, failAt)

\* failAt = 1..4: the first Redis command of get_book_from_context, of
\* get_conversation_context, of the first or of the second add_message raises
chat_about_book(user_message, session_id, language, response, failAt) ==
    /\ fin # None
    /\ ChatDetected(ChatCall(user_message, session_id, language, failAt),
                    user_message, session_id, response, failAt)
    /\ UNCHANGED <<now, mgr, pc, loc, writers, fin, fout>>

\* the store after add_message(session_id, "assistant", "b", books)
ShownStore(session_id, books) ==
    Saved(EmptyStore, session_id,
          WithMessage(LoadedSession(EmptyStore, session_id), "assistant", "b",
                      Some(books), Some("general")))

InitResolve ==
    /\ now = 0
    /\ mgr = "context"
    /\ store \in {EmptyStore} \cup {ShownStore("s1", b) : b \in RecLists}
    /\ call = NoCall
    /\ pc = Idle
    /\ loc = Idle
    /\ writers = <<>>
    /\ fin \in {Some(e) : e \in ResolveEnvironments}
    /\ fout = None

NextResolve ==
    \/ Tick
    \/ \E s \in SessionIds, a \in LookupArgs, f \in 0..2 :
          get_book_from_context(s, a[1], a[2], f)
    \/ \E s \in {None} \cup {Some(i) : i \in SessionIds}, t \in LookupTitles,
          f \in 0..1 :
          find_book_by_title_fuzzy(t, s, f)

SpecResolve == InitResolve /\ [][NextResolve]_vars

\* chat_about_book requests of one session, one after the other
NextChat ==
    \E s \in SessionIds, m \in ChatMessages, l \in ChatLanguages,
       r \in Responses, f \in 0..4 :
       chat_about_book(m, s, l, r, f)

SpecChat == InitResolve /\ [][NextChat]_vars

-----------------------------------------------------------------------------
(* BookAgentService.process_message (services/agent_service.py)            *)

\* books[:8] of the response, books[:3] of the saved message, k=5 of the
\* fallback search, k=4 and [:2] of similar_to_previous
SurfaceLimit == 8
SaveLimit == 3
FallbackLimit == 5

\* the longest list a search returns
MaxResults == 9

\* list[:n]
Take(list, n) == IF Len(list) > n THEN SubSeq(list, 1, n) ELSE list

\* a BookResult object; the books of a session are dicts
BookResult(book_id, title, search_method) ==
    [class |-> "BookResult", book_id |-> book_id, title |-> title,
     search_method |-> search_method]

IsBookResult(book) == "class" \in DOMAIN book

_book_dict_to_result(book_dict) ==
    BookResult(book_dict.book_id, book_dict.title,
               IF "search_method" \in DOMAIN book_dict
               THEN book_dict.search_method ELSE "redis_cache")

\* the later of the two definitions of the class
_format_books_for_response(books) ==
    [i \in 1..Len(books) |->
        IF IsBookResult(books[i])
        THEN [book_id |-> books[i].book_id, title |-> books[i].title,
              search_method |-> books[i].search_method]
        ELSE books[i]]

\* what a search of the engine returns: n books the engine found
Found(n) ==
    [i \in 1..n |-> BookResult(Some(3000 + i), "Found " \o ToString(i), "semantic")]

SearchResults == {Found(0), Found(MaxResults)}

reference_keywords(language) ==
    IF language = "en"
    THEN <<"that", "this", "the one", "you said", "mentioned", "talked", "cited",
           "previous", "before", "first", "second", "third", "last", "recommended">>
    ELSE <<"aquele", "esse", "desse", "desses", "que você", "você me",
           "mencionou", "falou", "citou", "anterior", "antes", "primeiro",
           "segundo", "terceiro", "último", "recomendou">>

\* last_recommendations is the list, [] when the session has none
_is_reference_to_previous_books(message, last_recommendations, language) ==
    /\ last_recommendations # <<>>
    /\ \/ AnyIn(reference_keywords(language), Lower(message))
       \/ \E i \in 1..Len(last_recommendations) :
              /\ last_recommendations[i].title # ""
              /\ Contains(Lower(message), Lower(last_recommendations[i].title))

book_conversation_keywords(language) ==
    IF language = "pt"
    THEN <<"sobre o livro", "deste livro", "desse livro", "livro específico",
           "fale sobre", "conte sobre", "explique sobre", "analise o livro",
           "o que acha do livro", "qual sua opinião sobre", "me fale sobre",
           "detalhes do livro", "informações do livro", "sinopse do",
           "autor do livro", "gênero do livro", "avaliação do livro">>
    ELSE <<"about the book", "about this book", "specific book",
           "talk about", "tell me about", "explain about", "analyze the book",
           "what do you think about", "your opinion on", "details of the book",
           "information about", "synopsis of", "author of the book",
           "genre of the book", "rating of the book">>

_is_book_conversation(message, language) ==
    \/ AnyIn(book_conversation_keywords(language), Lower(message))
    \/ /\ language \in Languages
       /\ \E i \in 1..Len(book_reference_patterns(language)) :
              Search(book_reference_patterns(language)[i], Lower(message), FALSE)

asking_keywords(language) ==
    IF language = "en"
    THEN <<"any of the", "the books", "the recommendations",
           "already recommended", "that you recommended", "previous",
           "that one", "this one">>
    ELSE <<"algum dos", "alguma das", "os livros", "as recomendações",
           "já recomendados", "que você recomendou", "anteriores",
           "desse", "dessa", "aquele", "esse">>

\* asking: the message has one of the asking_keywords; topic_shift and
\* similar (similarity_score > 0.3) come from the topics and the text of the
\* last user message
_analyze_context(asking, conversation_history, topic_shift, similar) ==
    IF conversation_history = <<>>
    THEN [asking_about_previous |-> FALSE, topic_shift |-> FALSE,
          is_continuation |-> FALSE]
    ELSE [asking_about_previous |-> asking, topic_shift |-> topic_shift,
          is_continuation |-> ~topic_shift /\ ~asking /\ similar]

\* the messages of the requests
ProcessMessages ==
    {"Obrigado", "livros de Stephen King", "algum dos livros serve?",
     "fale sobre \"Dxyz\" e \"DUNE\"", "fale sobre o livro ID 1001",
     "esse segundo parece bom", "oi"}

ProcessLanguage == "pt"

\* what the analysis functions give on each message
AnalysisOn ==
    [m \in ProcessMessages |->
        [intent |-> _analyze_intent(m),
         book_conversation |-> _is_book_conversation(m, ProcessLanguage),
         asking |-> AnyIn(asking_keywords(ProcessLanguage), Lower(m)),
         multiple |-> detect_multiple_books(m, ProcessLanguage),
         reference |-> detect_book_reference(m, ProcessLanguage)]] @@ <<>>

\* the recommendations of a session left with more than books[:8] of them:
\* add_message keeps every book it is given, and compare_multiple_books
\* gives it every book a message names
ManyShown == [i \in 1..MaxResults |-> BookRef(4000 + i, "Tomo " \o ToString(i))]

\* the last_recommendations a session of the model can hold
ShownInProcess ==
    LET lists == RecLists \cup {Found(MaxResults), ManyShown}
        again(l) == _format_books_for_response(
                        [i \in 1..Len(l) |-> _book_dict_to_result(l[i])])
        saved == {Take(_format_books_for_response(l), SaveLimit) : l \in lists}
    IN  {None} \cup {Some(l) : l \in RecLists \cup {ManyShown} \cup saved
                                  \cup {again(l) : l \in RecLists \cup saved}}

\* the dataset of the requests
ProcessEnvironments == {e \in ResolveEnvironments : e.id_column = "book_id"}

\* get_book_from_context finds one of the books detect_multiple_books gives
FoundOne(env, recs, multiple) ==
    \E i \in 1..Len(multiple) :
        Resolved(env, recs, multiple[i][1], multiple[i][2]).ret # None

\* what a message gives in a session with the recommendations recs: the
\* analysis an of the message, whether it refers to the previous books,
\* whether one of its books is found, and the book chat_about_book finds
RouteOf(env, message, recs, an, last_recommendations) ==
    [an |-> an,
     reference |-> _is_reference_to_previous_books(message, last_recommendations,
                                                   ProcessLanguage),
     found |-> FoundOne(env, recs, an.multiple),
     resolved |-> Resolved(env, recs, an.reference.title, an.reference.book_id)]

RouteOn ==
    [k \in ProcessEnvironments \X ProcessMessages \X ShownInProcess |->
        RouteOf(k[1], k[2], k[3], AnalysisOn[k[2]],
                IF Truthy(k[3]) THEN k[3][1] ELSE <<>>)] @@ <<>>

\* unique_results[:10] of _intelligent_search, limit=10 of search_by_author
InternalLimit == 10

\* the store after add_message(session_id, role, content, books, intent)
AddedMessage(st, session_id, role, content, books, intent) ==
    Saved(Saved(st, session_id, Loaded(st, session_id)), session_id,
          Updated(Loaded(st, session_id), role, content, books, intent))

\* add_message calls book.get on every book: a BookResult has no get
AddMessageRaises(books) == \E i \in 1..Len(books) : IsBookResult(books[i])

\* what chat_about_book returns and stores when Redis answers, given the
\* reference it detects and what get_book_from_context gives
ChatOutcome(st, reference, r, user_message, session_id, response) ==
    IF NothingNamed(reference.title, reference.book_id)
    THEN [context |-> "no_book_reference", book |-> None, store |-> st,
          saved |-> <<>>]
    ELSE IF r.ret = None
    THEN [context |-> "book_not_found", book |-> None, store |-> st,
          saved |-> <<>>]
    ELSE [context |-> "book_conversation", book |-> r.ret,
          store |-> AddedMessage(AddedMessage(st, session_id, "user",
                                              user_message, None, None),
                                 session_id, "assistant", response, None, None),
          saved |-> <<"user", "assistant">>]

NoProcessCall ==
    [op |-> "process_message", sid |-> "", message |-> "", failAt |-> NoFailure,
     outcome |-> "raised", path |-> "", intent |-> "", strategy |-> "",
     books |-> <<>>, produced |-> <<>>, retrieval |-> {}, recs |-> None,
     priorLen |-> 0, saved |-> <<>>, context |-> "", failed |-> "",
     found |-> 0]

\* the books a strategy gives, before the fallbacks
StrategyBooks(search_strategy, results, previous) ==
    IF search_strategy = "use_previous_only" THEN Take(previous, SurfaceLimit)
    ELSE IF search_strategy = "similar_to_previous" THEN Take(results, SurfaceLimit)
    ELSE Take(results, InternalLimit)

\* every strategy searching
StrategyCallsSearching(search_strategy) ==
    IF search_strategy = "similar_to_previous" THEN {"search_by_semantic"}
    ELSE {"_intelligent_search"}

\* the retrieval calls a strategy makes
StrategyCalls(search_strategy) ==
    IF search_strategy = "use_previous_only" THEN {}
    ELSE IF search_strategy = "similar_to_previous" THEN {"search_by_semantic"}
    ELSE {"_intelligent_search"}

\* a response that carries every book found
SurfacedAll(books) == _format_books_for_response(books)

\* self._format_books_for_response(books[:8])
Surfaced(books) == _format_books_for_response(Take(books, SurfaceLimit))

\* the assistant response of the request
ProcessResponse == "r"

\* the retrieval call of the author path
AuthorCalls(byAuthor) ==
    IF byAuthor THEN {"search_by_author"} ELSE {"search_by_semantic"}

\* the closing path, c the call and asked the store after the user message
Closing(q, c, asked) ==
    /\ store' = AddedMessage(asked, q.sid, "assistant", ProcessResponse,
                             Some(<<>>), Some(c.intent))
    /\ call' = [c EXCEPT !.outcome = "ok", !.path = "closing",
                         !.saved = <<"user", "assistant">>]

\* the author path, found the books of the search
ByAuthor(q, c, opened, asked, found) ==
    IF q.searchFails
    THEN /\ store' = opened
         /\ call' = [c EXCEPT !.path = "author",
                              !.retrieval = AuthorCalls(q.byAuthor)]
    ELSE IF AddMessageRaises(Take(found, SaveLimit))
    THEN /\ store' = Refreshed(asked, q.sid)
         /\ call' = [c EXCEPT !.path = "author", !.produced = found,
                              !.saved = <<"user">>,
                              !.retrieval = AuthorCalls(q.byAuthor)]
    ELSE /\ store' = AddedMessage(asked, q.sid, "assistant", ProcessResponse,
                                  Some(Take(found, SaveLimit)), Some(c.intent))
         /\ call' = [c EXCEPT !.outcome = "ok", !.path = "author",
                              !.produced = found,
                              !.books = Surfaced(found),
                              !.saved = <<"user", "assistant">>,
                              !.retrieval = AuthorCalls(q.byAuthor)]

\* the book conversation path, chat what chat_about_book gives
BookConversation(c, chat) ==
    /\ store' = chat.store
    /\ call' = [c EXCEPT !.outcome = "ok", !.path = "book_conversation",
                         !.intent = "book_conversation",
                         !.context = chat.context,
                         !.saved = chat.saved,
                         !.produced = chat.book,
                         !.books = chat.book]

\* the general path, books what the strategy and the fallbacks give. When
\* _analyze_context raised, context_analysis is unbound: the result dict
\* reads it when last_recommendations is not empty (line 788), after both
\* messages are stored
General(q, c, asked, search_strategy, books, last_recommendations) ==
    /\ store' = AddedMessage(asked, q.sid, "assistant", ProcessResponse,
                             Some(_format_books_for_response(
                                      Take(books, SaveLimit))),
                             Some(c.intent))
    /\ call' = IF q.failAt = 2 /\ last_recommendations # <<>>
               THEN [c EXCEPT !.path = "general",
                              !.produced = _format_books_for_response(books),
                              !.saved = <<"user", "assistant">>,
                              !.retrieval = {"search_by_semantic"}]
               ELSE [c EXCEPT !.outcome = "ok", !.path = "general",
                              !.strategy = IF q.failAt = 2 THEN ""
                                           ELSE search_strategy,
                              !.produced = _format_books_for_response(books),
                              !.books = Surfaced(books),
                              !.saved = <<"user", "assistant">>,
                              !.retrieval =
                                IF q.failAt = 2 THEN {"search_by_semantic"}
                                ELSE StrategyCalls(search_strategy)
                                       \cup IF q.searchFails
                                            THEN {"search_by_semantic"}
                                            ELSE {}]

\* the search of the strategy raised and the fallback search raises too:
\* the exception leaves process_message
FallbackRaised(c, opened, search_strategy) ==
    /\ store' = opened
    /\ call' = [c EXCEPT !.path = "general", !.strategy = search_strategy,
                         !.retrieval = StrategyCalls(search_strategy)
                                         \cup {"search_by_semantic"}]

\* the books of the general path: the fallback search when the search
\* raises, the previous books when nothing is found
GeneralBooks(tried, previous, last_recommendations) ==
    IF tried = <<>> /\ last_recommendations # <<>>
    THEN Take(previous, SaveLimit) ELSE tried

\* the general path after its search, tried the books the strategy or the
\* fallback search gave
Searched(q, c, asked, search_strategy, tried, previous, last_recommendations) ==
    General(q, [c EXCEPT !.found = Len(tried)], asked, search_strategy,
            GeneralBooks(tried, previous, last_recommendations),
            last_recommendations)

\* the request q on its path
Answer(q, c, route, path, search_strategy, previous, last_recommendations, opened, asked) ==
    /\ q.searchFails =>
          (path = "general" /\ StrategyCalls(search_strategy) # {})
             \/ path = "author"
    /\ q.byAuthor => path = "author"
    /\ (path \in {"closing", "book_conversation"}
          \/ (path = "general" /\ StrategyCalls(search_strategy) = {})
          \/ (path = "author" /\ q.searchFails)) => q.results = Found(0)
    /\ path # "general" => ~q.topic_shift /\ ~q.similar /\ q.failAt \notin {2, 3}
    /\ IF q.failAt = 1
       THEN /\ store' = store
            /\ call' = c
       ELSE CASE path = "closing" -> Closing(q, c, asked)
              [] path = "author" ->
                 ByAuthor(q, c, opened, asked, Take(q.results, InternalLimit))
              [] path = "book_conversation" ->
                 BookConversation(c, ChatOutcome(opened, route.an.reference,
                                                 route.resolved, q.message, q.sid,
                                                 ProcessResponse))
              [] path = "general" /\ q.failAt = 3 ->
                 FallbackRaised(c, opened, search_strategy)
              [] path = "general" /\ q.failAt # 3 ->
                 Searched(q, c, asked, search_strategy,
                          IF q.searchFails \/ q.failAt = 2
                          THEN Take(q.fallback, FallbackLimit)
                          ELSE StrategyBooks(search_strategy, q.results, previous),
                          previous, last_recommendations)

\* the step of the general path that raised
FailedIn(q) ==
    IF q.failAt = 2 THEN "analysis"
    ELSE IF q.failAt = 3 THEN "fallback"
    ELSE IF q.searchFails THEN "search"
    ELSE ""

\* the path of the request
PathOf(intent, book_from_history) ==
    IF intent = "closing" THEN "closing"
    ELSE IF intent = "author" THEN "author"
    ELSE IF book_from_history THEN "book_conversation"
    ELSE "general"

\* the request q with its intent, in the session as loaded
Intended(q, session, route, intent, last_recommendations, opened) ==
    Answer(q,
           [NoProcessCall EXCEPT !.sid = q.sid, !.message = q.message,
                                 !.failAt = q.failAt, !.intent = intent,
                                 !.failed = FailedIn(q),
                                 !.recs = session.last_recommendations,
                                 !.priorLen = Len(session.conversation_history)],
           route,
           PathOf(intent,
                  /\ (route.an.book_conversation \/ intent = "book_conversation")
                  /\ last_recommendations # <<>>
                  /\ route.found),
           _determine_search_strategy(
               q.message, intent,
               _analyze_context(route.an.asking, session.conversation_history,
                                q.topic_shift, q.similar),
               session.last_recommendations),
           [i \in 1..Len(last_recommendations) |->
               _book_dict_to_result(last_recommendations[i])],
           last_recommendations, opened,
           AddedMessage(opened, q.sid, "user", q.message, None, Some(intent)))

Routed(q, session, route, last_recommendations) ==
    Intended(q, session, route,
             IF route.reference THEN "book_conversation" ELSE route.an.intent,
             last_recommendations, Refreshed(store, q.sid))

Opened(q, session) ==
    Routed(q, session, RouteOn[<<fin[1], q.message, session.last_recommendations>>],
           IF Truthy(session.last_recommendations)
           THEN session.last_recommendations[1] ELSE <<>>)

\* results, fallback: what the search of the path and the fallback search
\* return; searchFails: the search of the path raises; byAuthor:
\* _extract_author finds an author; failAt = 1: the first Redis command
\* raises, before anything else is read; failAt = 2: _analyze_context raises;
\* failAt = 3: the search of the strategy raises and the fallback search
\* raises too
process_message(message, session_id, results, fallback, topic_shift, similar, searchFails, byAuthor, failAt) ==
    /\ fin # None
    /\ (~searchFails /\ failAt # 2) => fallback = Found(0)
    /\ failAt \in {1, 2} =>
          /\ results = Found(0)
          /\ ~topic_shift /\ ~similar /\ ~searchFails /\ ~byAuthor
    /\ failAt = 3 => searchFails /\ ~byAuthor /\ fallback = Found(0)
    /\ Opened([message |-> message, sid |-> session_id, results |-> results,
               fallback |-> fallback, topic_shift |-> topic_shift,
               similar |-> similar, searchFails |-> searchFails,
               byAuthor |-> byAuthor, failAt |-> failAt],
              Loaded(store, session_id))
    /\ UNCHANGED <<now, mgr, pc, loc, writers, fin, fout>>

\* the requests of one session, one after the other
NextProcess ==
    \E m \in ProcessMessages, s \in SessionIds, r \in SearchResults,
       fb \in SearchResults, shift \in BOOLEAN, sim \in BOOLEAN,
       sf \in BOOLEAN, ba \in BOOLEAN, f \in 0..3 :
       process_message(m, s, r, fb, shift, sim, sf, ba, f)

InitProcess ==
    /\ now = 0
    /\ mgr = "context"
    /\ store \in {EmptyStore} \cup {ShownStore("s1", b) : b \in RecLists \cup {ManyShown}}
    /\ call = NoCall
    /\ pc = Idle
    /\ loc = Idle
    /\ writers = <<>>
    /\ fin \in {Some(e) : e \in ProcessEnvironments}
    /\ fout = None

SpecProcess == InitProcess /\ [][NextProcess]_vars

-----------------------------------------------------------------------------
(* BookAgentService._remove_duplicate_books and _intelligent_search         *)
(* (services/agent_service.py)                                              *)

\* the longest list handed to _remove_duplicate_books, and the most keywords
\* the query refiner gives
MaxBooks == 3
MaxKeywords == 4

\* a BookResult with its similarity_score (in tenths)
Scored(book_id, title, similarity_score) ==
    [class |-> "BookResult", book_id |-> book_id, title |-> title,
     search_method |-> "semantic", similarity_score |-> similarity_score]

\* if book_id: (None and 0 are falsy)
HasId(book) == IdOf(book) # None /\ IdOf(book)[1] # 0

\* getattr(book, 'book_id', None) or book.get('book_id'): a BookResult has no
\* get, so the expression raises AttributeError when its book_id is falsy
KeyRaises(book) == IsBookResult(book) /\ ~HasId(book)

\* what seen_ids holds for the book: its book_id, or its title when the
\* book_id is falsy
SeenKey(book) ==
    IF HasId(book) THEN [id |-> IdOf(book)[1], title |-> "", by |-> "id"]
    ELSE [id |-> 0, title |-> TitleOf(book), by |-> "title"]

RECURSIVE RemoveFrom(_, _, _, _)
\* the loop of _remove_duplicate_books from books[i] on
RemoveFrom(books, i, seen_ids, unique_books) ==
    IF i > Len(books) THEN [raised |-> FALSE, books |-> unique_books]
    ELSE IF KeyRaises(books[i]) THEN [raised |-> TRUE, books |-> <<>>]
    ELSE IF SeenKey(books[i]) \in seen_ids
    THEN RemoveFrom(books, i + 1, seen_ids, unique_books)
    ELSE RemoveFrom(books, i + 1, seen_ids \cup {SeenKey(books[i])},
                    Append(unique_books, books[i]))

_remove_duplicate_books(books) == RemoveFrom(books, 1, {}, <<>>)

\* the place of list[i] after list.sort(key=..., reverse=True), rank[i] the
\* key of list[i]: a pair compared first to last; equal keys keep their order
PlaceOf(rank, i) ==
    1 + Cardinality({j \in 1..Len(rank) :
                        \/ rank[j][1] > rank[i][1]
                        \/ rank[j][1] = rank[i][1] /\ rank[j][2] > rank[i][2]
                        \/ rank[j] = rank[i] /\ j < i})

SortedBy(list, rank) ==
    [p \in 1..Len(list) |-> list[CHOOSE i \in 1..Len(list) : PlaceOf(rank, i) = p]]

\* the sort keys of _intelligent_search: for comics, whether the title holds
\* a keyword, then the score; otherwise the score
SortKeys(books, search_intent, keywords) ==
    [i \in 1..Len(books) |->
        <<IF search_intent = "comics"
             /\ \E k \in 1..Len(keywords) :
                   Contains(Lower(books[i].title), Lower(keywords[k]))
          THEN 1 ELSE 0,
          books[i].similarity_score>>]

\* a call of the search engine raises, or answers with books
Raises == [raises |-> TRUE, books |-> <<>>]
Answers(books) == [raises |-> FALSE, books |-> books]

RECURSIVE Extended(_)
\* textual_results after the loop over the keywords
Extended(textual) ==
    IF textual = <<>> THEN <<>>
    ELSE textual[1].books \o Extended(Tail(textual))

\* the searches by keyword made until one raises
TextualCalls(textual) ==
    IF \E i \in 1..Len(textual) : textual[i].raises
    THEN CHOOSE i \in 1..Len(textual) :
            textual[i].raises /\ \A j \in 1..(i - 1) : ~textual[j].raises
    ELSE Len(textual)

\* the except branch: search_by_semantic(normalized_query, k=8), unguarded
SemanticFallback(q, calls) ==
    [raised |-> q.fallback.raises, books |-> q.fallback.books,
     calls |-> calls + 1, fallback |-> TRUE]

\* the end of the try block, unique what _remove_duplicate_books gives
Ranked(q, unique, calls) ==
    IF unique.raised THEN SemanticFallback(q, calls)
    ELSE [raised |-> FALSE,
          books |-> Take(SortedBy(unique.books,
                                  SortKeys(unique.books, q.search_intent,
                                           q.keywords)),
                         InternalLimit),
          calls |-> calls, fallback |-> FALSE]

\* q: what the collaborators do in one call. refineFails: the query refiner
\* raises; semantic: search_by_semantic(expanded_query, k=12); textual: the
\* search_by_textual(keyword, k=8) of each of keywords[:3]; fallback: the
\* search of the except branch. The result counts the engine calls made.
_intelligent_search(q) ==
    IF q.refineFails
    THEN [raised |-> TRUE, books |-> <<>>, calls |-> 0, fallback |-> FALSE]
    ELSE IF q.semantic.raises THEN SemanticFallback(q, 1)
    ELSE IF \E i \in 1..Len(q.textual) : q.textual[i].raises
    THEN SemanticFallback(q, 1 + TextualCalls(q.textual))
    ELSE Ranked(q, _remove_duplicate_books(q.semantic.books \o Extended(q.textual)),
                1 + Len(q.textual))

\* the books of the lists
DuneFirst == Scored(Some(1), "Dune", 9)
DuneAgain == Scored(Some(1), "Dune (ed. 2)", 10)
Crows == Scored(Some(2), "Six of Crows", 5)
Messiah == Scored(Some(3), "Dune Messiah", 9)
Zeroth == Scored(Some(0), "Kingdom", 8)

\* the lists handed to _remove_duplicate_books: BookResult objects and book
\* dicts, with and without book_id
BookPool ==
    {DuneFirst, DuneAgain, Crows, Zeroth,
     BookRef(1, "Dune"), BookRef(0, "Dune"), BookRef(0, "Duna"),
     [book_id |-> None, title |-> "Dune"], [title |-> "Duna"]}

BookLists == UNION {[1..n -> BookPool] : n \in 0..MaxBooks}

\* what the engine answers
SemanticAnswers ==
    {Raises, Answers(<<>>), Answers(<<Crows, DuneFirst>>), Answers(<<Crows, Zeroth>>)}
TextualAnswers == {Raises, Answers(<<>>), Answers(<<DuneAgain, Messiah>>)}
FallbackAnswers == {Raises, Answers(<<Messiah>>)}

AllKeywords == <<"dune", "crows", "kingdom", "six", "messiah">>

\* for keyword in keywords[:3]
Min3(n) == IF n > 3 THEN 3 ELSE n

SearchInputs ==
    {[fn |-> "_intelligent_search", refineFails |-> rf, search_intent |-> si,
      keywords |-> SubSeq(AllKeywords, 1, n), semantic |-> s, textual |-> t,
      fallback |-> f] :
        rf \in BOOLEAN, si \in {"general", "comics"}, n \in 0..MaxKeywords,
        s \in SemanticAnswers, f \in FallbackAnswers,
        t \in UNION {[1..m -> TextualAnswers] : m \in 0..3}}

DedupInputs == {[fn |-> "_remove_duplicate_books", books |-> b] : b \in BookLists}

remove_duplicate_books ==
    /\ fin # None
    /\ fin[1].fn = "_remove_duplicate_books"
    /\ fout = None
    /\ fout' = Some(_remove_duplicate_books(fin[1].books))
    /\ UNCHANGED <<now, store, mgr, call, pc, loc, writers, fin>>

intelligent_search ==
    /\ fin # None
    /\ fin[1].fn = "_intelligent_search"
    /\ fout = None
    /\ fout' = Some(_intelligent_search(fin[1]))
    /\ UNCHANGED <<now, store, mgr, call, pc, loc, writers, fin>>

InitSearch ==
    /\ InitPure
    /\ fin \in {Some(i) : i \in DedupInputs}
                  \cup {Some(i) : i \in {q \in SearchInputs :
                                            Len(q.textual) = Min3(Len(q.keywords))}}

NextSearch == remove_duplicate_books \/ intelligent_search

SpecSearch == InitSearch /\ [][NextSearch]_vars

-----------------------------------------------------------------------------
(* BookAgentService._detect_topic and _analyze_context on a message and a
   history (services/agent_service.py) *)

\* the topics in the order of the table, each with its keywords
topic_keywords ==
    <<<<"programming",
        <<"python", "java", "javascript", "c++", "programming", "coding",
          "software", "algorithm", "data structure", "web development",
          "programação", "programacao", "código", "codigo", "algoritmo">>>>,
      <<"data_science",
        <<"data science", "machine learning", "artificial intelligence", "ai",
          "data analysis", "statistics", "big data", "ciência de dados",
          "ciencia de dados", "aprendizado de máquina",
          "inteligência artificial", "inteligencia artificial">>>>,
      <<"physics",
        <<"physics", "física", "fisica", "mechanics", "quantum", "relativity",
          "thermodynamics", "optics", "mecânica", "mecanica", "óptica",
          "optica">>>>,
      <<"mathematics",
        <<"mathematics", "math", "calculus", "algebra", "geometry",
          "statistics", "probability", "matemática", "matematica", "cálculo",
          "calculo", "álgebra", "algebra">>>>,
      <<"leadership",
        <<"leadership", "management", "team", "lead", "manager", "liderança",
          "lideranca", "gestão", "gestao", "chefia", "equipe">>>>,
      <<"business",
        <<"business", "entrepreneurship", "marketing", "finance", "economics",
          "negócios", "negocios", "empreendedorismo", "marketing",
          "finanças">>>>,
      <<"fiction",
        <<"fiction", "novel", "story", "fantasy", "science fiction", "romance",
          "ficção", "ficcao", "romance", "fantasia", "ficção científica">>>>,
      <<"self_help",
        <<"self help", "self-help", "personal development", "motivation",
          "autoajuda", "auto-ajuda", "desenvolvimento pessoal",
          "motivação">>>>>>

RECURSIVE TopicFrom(_, _)
\* the first topic of the table with a keyword in the text, or general
TopicFrom(table, text_lower) ==
    IF table = <<>> THEN "general"
    ELSE IF AnyIn(Head(table)[2], text_lower) THEN Head(table)[1]
    ELSE TopicFrom(Tail(table), text_lower)

_detect_topic(text, language) == TopicFrom(topic_keywords, Lower(text))

RECURSIVE LastUserMessage(_)
\* the content of the last message of the user, if the history has one
LastUserMessage(conversation_history) ==
    IF conversation_history = <<>> THEN None
    ELSE IF conversation_history[Len(conversation_history)].role = "user"
         THEN Some(conversation_history[Len(conversation_history)].content)
    ELSE LastUserMessage(SubSeq(conversation_history, 1,
                                Len(conversation_history) - 1))

\* the analysis with a last message of the user, or without one
AnalysisAfter(message, conversation_history, language, last_user_message, similar) ==
    _analyze_context(
        AnyIn(asking_keywords(language), Lower(message)),
        conversation_history,
        /\ last_user_message # None
        /\ last_user_message[1] # ""
        /\ _detect_topic(message, language)
              # _detect_topic(last_user_message[1], language),
        /\ last_user_message # None
        /\ last_user_message[1] # ""
        /\ similar)

\* _analyze_context on the message itself; similar: the ratio of
\* SequenceMatcher for the message and the last message of the user is
\* above 0.3
AnalyzedContext(message, conversation_history, last_recommendations, language, similar) ==
    AnalysisAfter(message, conversation_history, language,
                  LastUserMessage(conversation_history), similar)

ContextMessages ==
    {"algum dos livros serve?", "Os Livros de Python", "livros de física",
     "the books on Python", "which of the PREVIOUS ones?", "oi"}

ContextLanguages == {"pt", "en", "es"}

Said(role, content) == [role |-> role, content |-> content]

ContextHistories ==
    {<<>>,
     <<Said("user", "livros de python")>>,
     <<Said("assistant", "Veja estes livros")>>,
     <<Said("user", "books on physics"), Said("assistant", "Here they are")>>}

ContextInputs ==
    [fn : {"_analyze_context"}, message : ContextMessages,
     conversation_history : ContextHistories,
     last_recommendations : {<<>>, <<Book(Some(1))>>, <<Book(Some(0)), Book(None)>>},
     language : ContextLanguages, similar : BOOLEAN]

analyze_context ==
    /\ fin # None
    /\ fin[1].fn = "_analyze_context"
    /\ fout = None
    /\ fout' = Some(AnalyzedContext(fin[1].message, fin[1].conversation_history,
                                    fin[1].last_recommendations,
                                    fin[1].language, fin[1].similar))
    /\ UNCHANGED <<now, store, mgr, call, pc, loc, writers, fin>>

InitContext == InitPure /\ fin \in {Some(i) : i \in ContextInputs}

NextContext == analyze_context

SpecContext == InitContext /\ [][NextContext]_vars

-----------------------------------------------------------------------------
(* ConversationContextManager calls on one session, interleaved: each Redis
   command is one step, and a process starts its next call when one ends *)

\* a save of the cache entry that starts the set of discussed books anew
WithBookDetailsAlone(session, book_id, details) ==
    [session EXCEPT
        !.discussed_books = {},
        !.book_details_cache =
            (ToString(book_id) :> [details |-> details,
                                   timestamp |-> IsoFormat(now)]) @@ @]

\* the session add_book_details saves
WithBookDetails(session, book_id, details) ==
    [session EXCEPT
        !.book_details_cache =
            (ToString(book_id) :> [details |-> details,
                                   timestamp |-> IsoFormat(now)]) @@ @]

\* the calls of the processes: get_or_create_session, add_message with and
\* without books, add_book_details
SharedCalls ==
    {[op |-> "get_or_create_session", role |-> "", content |-> "",
      books |-> None, intent |-> None, book_id |-> 0]}
      \cup {[op |-> "add_message", role |-> m[1], content |-> m[2],
             books |-> m[3], intent |-> m[4], book_id |-> 0] :
               m \in {a \in MessageArgs : a[3] # Some(<<>>)}}
      \cup {[op |-> "add_book_details", role |-> "", content |-> "",
             books |-> None, intent |-> None, book_id |-> 1]}

SharedIdle ==
    [op |-> "none", role |-> "", content |-> "", books |-> None,
     intent |-> None, book_id |-> 0, session |-> None]

\* the calls the processes start, all together
MaxCalls == 2

\* get_or_create_session line 157: redis.get and the local session;
\* writers lists the processes in the order their calls started
SharedGet(p, c) ==
    /\ pc[p] = "idle"
    /\ Len(writers) < MaxCalls
    /\ writers' = Append(writers, p)
    /\ pc' = [pc EXCEPT ![p] = "loaded"]
    /\ loc' = [loc EXCEPT ![p] =
                 c @@ [session |-> Some(LoadedSession(store, RaceSession))]]
    /\ UNCHANGED <<now, store, mgr, call, fin, fout>>

\* get_or_create_session line 174: the save of the loaded session, which
\* ends a call of get_or_create_session
SharedSaveLoaded(p) ==
    /\ pc[p] = "loaded"
    /\ store' = _save_session(store, RaceSession, loc[p].session[1])
    /\ pc' = [pc EXCEPT ![p] = IF loc[p].op = "get_or_create_session"
                                THEN "idle" ELSE "saved"]
    /\ UNCHANGED <<now, mgr, call, loc, writers, fin, fout>>

\* add_message lines 198-224: the update of the local session and its save
SharedSaveMessage(p) ==
    /\ pc[p] = "saved"
    /\ loc[p].op = "add_message"
    /\ store' = _save_session(store, RaceSession,
                              WithMessage(loc[p].session[1], loc[p].role,
                                          loc[p].content, loc[p].books,
                                          loc[p].intent))
    /\ pc' = [pc EXCEPT ![p] = "idle"]
    /\ UNCHANGED <<now, mgr, call, loc, writers, fin, fout>>

\* add_book_details lines 296-300: the entry of the cache and the save
SharedSaveDetails(p) ==
    /\ pc[p] = "saved"
    /\ loc[p].op = "add_book_details"
    /\ store' = _save_session(store, RaceSession,
                              WithBookDetails(loc[p].session[1],
                                              loc[p].book_id, "d"))
    /\ pc' = [pc EXCEPT ![p] = "idle"]
    /\ UNCHANGED <<now, mgr, call, loc, writers, fin, fout>>

InitShared ==
    /\ now = 0
    /\ mgr = "context"
    /\ store = EmptyStore
    /\ call = NoCall
    /\ pc = [p \in Procs |-> "idle"]
    /\ loc = [p \in Procs |-> SharedIdle]
    /\ writers = <<>>
    /\ fin = None
    /\ fout = None

NextShared ==
    \/ Tick
    \/ \E p \in Procs, c \in SharedCalls : SharedGet(p, c)
    \/ \E p \in Procs : SharedSaveLoaded(p)
    \/ \E p \in Procs : SharedSaveMessage(p)
    \/ \E p \in Procs : SharedSaveDetails(p)

SpecShared == InitShared /\ [][NextShared]_vars

-----------------------------------------------------------------------------
(* ConversationContextManager.clear_session_data, and the calls on several
   session ids (services/conversation_context.py) *)

\* the session ids of the calls: one a prefix of another, and one that
\* occurs in the prefix of every key
FrameSessions == {"s1", "s10", "on"}

FrameKeys == {_session_key(s) : s \in FrameSessions}

\* the keys the call lists for the session itself
session_keys(session_id) ==
    {"conversation:" \o session_id,
     "chat:" \o session_id \o ":messages",
     "chat:" \o session_id \o ":recommendations",
     "chat:" \o session_id \o ":user_profile",
     "chat:" \o session_id \o ":conversation_context",
     "chat:" \o session_id \o ":history",
     "chat:" \o session_id \o ":topics",
     "chat:" \o session_id \o ":preferences"}

\* redis.exists(key): the key is stored and its TTL has not run out
RedisExists(st, key) == key \in DOMAIN st /\ RedisGet(st, key) # None

\* redis.keys("*" + text + "*"): the live keys that contain the text
KeysContaining(st, text) ==
    {k \in DOMAIN st : RedisGet(st, k) # None /\ Contains(k, text)}

\* the listed keys that exist, deleted in the first loop
ListedKeys(st, session_id) ==
    {k \in session_keys(session_id) : RedisExists(st, k)}

\* the keys of the pattern that are not listed, deleted in the second loop
PatternKeys(st, session_id) ==
    KeysContaining(st, session_id) \ session_keys(session_id)

\* the call with the listed keys deleted first
ClearedData(c, session_id, listed) ==
    /\ store' = DeleteAll(DeleteAll(store, listed),
                          PatternKeys(DeleteAll(store, listed), session_id))
    /\ call' = Returned(c, session_id,
                        Some(Cardinality(listed)
                               + Cardinality(PatternKeys(DeleteAll(store, listed),
                                                         session_id))))

\* failAt = 1: the first Redis command raises, and the call returns its
\* error dict
clear_session_data(session_id, failAt) ==
    /\ mgr = "context"
    /\ IF failAt = NoFailure
       THEN ClearedData([NoCall EXCEPT !.op = "clear_session_data"], session_id,
                        ListedKeys(store, session_id))
       ELSE /\ store' = store
            /\ call' = [NoCall EXCEPT !.op = "clear_session_data",
                                      !.sid = session_id, !.failAt = failAt]
    /\ UNCHANGED <<now, mgr, pc, loc, writers, fin, fout>>

InitFrame ==
    /\ now = 0
    /\ store = [k \in FrameKeys |-> None]
    /\ mgr = "context"
    /\ call = NoCall
    /\ pc = Idle
    /\ loc = Idle
    /\ writers = <<>>
    /\ fin = None
    /\ fout = None

NextFrame ==
    \/ Tick
    \/ \E s \in FrameSessions : get_or_create_session(s, NoFailure)
    \/ \E s \in FrameSessions :
          add_message(s, "assistant", "b", Some(<<Book(Some(1))>>),
                      Some("general"), NoFailure)
    \/ \E s \in FrameSessions, f \in 0..1 : clear_session(s, f)
    \/ \E s \in FrameSessions, f \in 0..1 : clear_session_data(s, f)

SpecFrame == InitFrame /\ [][NextFrame]_vars

-----------------------------------------------------------------------------
(* Observations of the store used by the properties *)

\* the JSON object stored under a session id (the entry must exist)
Json(st, session_id) == JsonLoads(st[_session_key(session_id)][1].value)

\* the record of session_id exists and its TTL has not run out at time t
Live(st, session_id, t) ==
    LET e == st[_session_key(session_id)] IN e # None /\ t < e[1].expire

HistoryIn(st, session_id) == Json(st, session_id).conversation_history
DiscussedIn(st, session_id) ==
    LET l == Json(st, session_id).discussed_books IN {l[i] : i \in 1..Len(l)}
LastRecsIn(st, session_id) == Json(st, session_id).last_recommendations

\* this step is a call of op on session_id
CallStep(op, session_id) ==
    /\ call'.op = op
    /\ call'.sid = session_id
    /\ (call' # call \/ store' # store)

OkStep(op, session_id) == CallStep(op, session_id) /\ call'.outcome = "ok"

Min(a, b) == IF a < b THEN a ELSE b

\* the last n elements of history followed by message, in order
LastOfAppended(history, message, n) ==
    LET all == history \o <<message>>
        k == Min(Len(all), n)
    IN  [i \in 1..k |-> all[Len(all) - k + i]]

-----------------------------------------------------------------------------
(* C1: every stored conversation_history has at most max_context_messages
   messages, after every call of either manager. *)
C1_HistoryBounded ==
    \A s \in SessionIds :
        store[_session_key(s)] # None =>
            Len(HistoryIn(store, s)) <= max_context_messages

\* an add_message that met a full history has completed
C1_Witness ==
    /\ call.op = "add_message"
    /\ call.outcome = "ok"
    /\ call.lookup = "found"
    /\ call.priorLen = max_context_messages
    /\ Len(HistoryIn(store, call.sid)) = max_context_messages

(* C2: while the record is live, no get_or_create_session or add_message
   call, whatever its outcome, removes an id from discussed_books. *)
C2_DiscussedMonotone ==
    [][\A s \in SessionIds :
        (/\ Live(store, s, now)
         /\ \/ CallStep("get_or_create_session", s)
            \/ CallStep("add_message", s))
        => /\ Live(store', s, now')
           /\ DiscussedIn(store, s) \subseteq DiscussedIn(store', s)]_vars

\* an add_message on a live session has grown discussed_books to two ids
C2_Witness ==
    /\ call.op = "add_message"
    /\ call.outcome = "ok"
    /\ call.lookup = "found"
    /\ Truthy(call.books)
    /\ Cardinality(DiscussedIn(store, call.sid)) = 2

(* C3: add_message on a live session with history H stores the last
   max_context_messages elements of H followed by the new message: the
   messages kept are unaltered and in order, only the oldest are dropped. *)
C3_AppendThenTruncate ==
    [][\A s \in SessionIds :
        (Live(store, s, now) /\ OkStep("add_message", s))
        => HistoryIn(store', s) =
             LastOfAppended(HistoryIn(store, s),
                            Message(call'.role, call'.content, call'.books,
                                    call'.intent),
                            max_context_messages)]_vars

\* an add_message has dropped the oldest message of a full history
C3_Witness ==
    /\ call.op = "add_message"
    /\ call.outcome = "ok"
    /\ call.lookup = "found"
    /\ call.priorLen = max_context_messages
    /\ HistoryIn(store, call.sid)[max_context_messages].content = call.content
    /\ HistoryIn(store, call.sid)[1] # HistoryIn(store, call.sid)[2]

\* the non-null book ids of a list of books
NonNullIds(list) ==
    {list[i].book_id[1] : i \in {j \in 1..Len(list) : list[j].book_id # None}}

(* C4: ConversationContextManager.add_message without books (absent or
   empty) leaves last_recommendations and discussed_books as they were; with
   books it stores exactly that list as last_recommendations and adds every
   non-null book_id to discussed_books.  get_or_create_session and
   get_last_recommendations leave last_recommendations alone, and
   get_last_recommendations returns it. *)
C4_BooksFrame ==
    [][\A s \in SessionIds :
        LET live == Live(store, s, now)
            recsBefore == IF live THEN LastRecsIn(store, s) ELSE None
            discussedBefore == IF live THEN DiscussedIn(store, s) ELSE {}
        IN  mgr = "context" =>
            /\ OkStep("add_message", s) =>
                 IF Truthy(call'.books)
                 THEN /\ LastRecsIn(store', s) = call'.books
                      /\ DiscussedIn(store', s) =
                           discussedBefore \cup NonNullIds(call'.books[1])
                 ELSE /\ LastRecsIn(store', s) = recsBefore
                      /\ DiscussedIn(store', s) = discussedBefore
            /\ OkStep("get_or_create_session", s) =>
                 LastRecsIn(store', s) = recsBefore
            /\ OkStep("get_last_recommendations", s) =>
                 /\ LastRecsIn(store', s) = recsBefore
                 /\ call'.ret = recsBefore]_vars

\* an add_message with a book of id 0 and a book without id has replaced
\* the recommendations and kept the id discussed before
C4_Witness ==
    /\ mgr = "context"
    /\ call.op = "add_message"
    /\ call.outcome = "ok"
    /\ call.lookup = "found"
    /\ call.books = Some(<<Book(Some(0)), Book(None)>>)
    /\ LastRecsIn(store, call.sid) = call.books
    /\ DiscussedIn(store, call.sid) = {0, 1}

\* the time of the last access recorded in a stored session
LastActivityIn(st, session_id) == FromIsoFormat(Json(st, session_id).last_activity)

\* a session as get_or_create_session creates it
IsFresh(session) ==
    /\ session.conversation_history = <<>>
    /\ session.last_recommendations = None
    /\ session.discussed_books = {}

(* C5: every successful get_or_create_session, add_message and
   get_last_recommendations persists the record with the full TTL counted
   from the call; a record accessed less than a TTL ago is still there and
   is kept; a get_or_create_session a TTL or more after the last access
   returns a fresh session. *)
C5_TtlFromLastAccess ==
    [][\A s \in SessionIds :
        LET key == _session_key(s)
            reading == \/ OkStep("get_or_create_session", s)
                       \/ OkStep("get_last_recommendations", s)
        IN  (reading \/ OkStep("add_message", s)) =>
            /\ store'[key] # None
            /\ store'[key][1].expire = now + context_ttl_seconds
            /\ (store[key] # None
                /\ now - LastActivityIn(store, s) < context_ttl_seconds) =>
                 /\ call'.lookup = "found"
                 /\ Json(store', s).created = Json(store, s).created
                 /\ DiscussedIn(store, s) \subseteq DiscussedIn(store', s)
                 /\ reading => /\ HistoryIn(store', s) = HistoryIn(store, s)
                               /\ LastRecsIn(store', s) = LastRecsIn(store, s)
            /\ (store[key] # None
                /\ now - LastActivityIn(store, s) >= context_ttl_seconds
                /\ OkStep("get_or_create_session", s)) =>
                 /\ call'.lookup = "expired"
                 /\ IsFresh(AsContext(call'.ret[1]))
                 /\ AsContext(call'.ret[1]).created = now]_vars

\* a session still found a TTL or more after its creation, with its history
C5_Witness ==
    /\ call.op = "get_or_create_session"
    /\ call.outcome = "ok"
    /\ call.lookup = "found"
    /\ call.priorLen > 0
    /\ now >= AsContext(call.ret[1]).created + context_ttl_seconds
    /\ AsContext(call.ret[1]).last_activity = now

\* a get_or_create_session that met a record whose TTL had run out
C5_ExpiredWitness ==
    /\ call.op = "get_or_create_session"
    /\ call.outcome = "ok"
    /\ call.lookup = "expired"
    /\ HistoryIn(store, call.sid) = <<>>

(* C6: get_or_create_session never raises to its caller. *)
C6_NeverRaises ==
    call.op = "get_or_create_session" => call.outcome = "ok"

\* two returned sessions agree in every field but last_activity
EqualButLastActivity(a, b) ==
    [AsContext(a) EXCEPT !.last_activity = 0] = [AsContext(b) EXCEPT !.last_activity = 0]

\* this step is a second successful get_or_create_session right after one
\* that found no record of s
SecondGetOrCreate(s) ==
    /\ call.op = "get_or_create_session"
    /\ call.sid = s
    /\ call.outcome = "ok"
    /\ call.lookup # "found"
    /\ OkStep("get_or_create_session", s)

OneRecord(st, s) ==
    Cardinality({k \in RedisKeys : k = _session_key(s) /\ st[k] # None}) = 1

(* C10 as claimed: two consecutive get_or_create_session calls on an id
   without a record return sessions equal in every field but last_activity,
   and one record exists afterwards. *)
C10_TwiceEqual ==
    [][\A s \in SessionIds :
        SecondGetOrCreate(s) =>
            /\ EqualButLastActivity(call'.ret[1], call.ret[1])
            /\ OneRecord(store', s)]_vars

(* C10 amended: two consecutive get_or_create_session calls on an id
   without a record, the second made before the TTL has run out since the
   first, return sessions equal in every field but last_activity (same
   created, empty history, no last_recommendations, empty discussed_books),
   and one record exists afterwards. *)
C10_TwiceEqualWithinTtl ==
    [][\A s \in SessionIds :
        (SecondGetOrCreate(s) /\ now < LastActivityIn(store, s) + context_ttl_seconds) =>
            /\ EqualButLastActivity(call'.ret[1], call.ret[1])
            /\ IsFresh(AsContext(call'.ret[1]))
            /\ OneRecord(store', s)]_vars

\* the second of two consecutive calls, made a tick after the first
C10_Witness ==
    /\ call.op = "get_or_create_session"
    /\ call.outcome = "ok"
    /\ call.afterCreate
    /\ call.lookup = "found"
    /\ AsContext(call.ret[1]).created < AsContext(call.ret[1]).last_activity

\* both requests read before any write, and both have returned
BothReadFirst ==
    /\ \A p \in Procs : pc[p] = "done" /\ loc[p].readAfter = 0

\* the request whose write came last
LaterWriter == writers[Len(writers)]

(* C7: when two add_message calls on one session both read before either
   writes, both return normally and the record stored in the end is the one
   the later writer built from what it read: one new message, not two; the
   earlier writer's message, last_recommendations and book ids are not in
   it. *)
C7_LaterWriterWins ==
    BothReadFirst =>
        LET w == LaterWriter
            e == CHOOSE p \in Procs : p # w
            read == AsContext(loc[w].session[1])
        IN  /\ store[_session_key(RaceSession)] # None
            /\ HistoryIn(store, RaceSession) =
                 LastOfAppended(read.conversation_history, loc[w].message[1],
                                max_context_messages)
            /\ Len(HistoryIn(store, RaceSession)) =
                 Min(Len(read.conversation_history) + 1, max_context_messages)
            /\ (/\ loc[e].message # loc[w].message
                /\ \A i \in 1..Len(read.conversation_history) :
                       read.conversation_history[i] # loc[e].message[1]) =>
                 \A i \in 1..Len(HistoryIn(store, RaceSession)) :
                     HistoryIn(store, RaceSession)[i] # loc[e].message[1]
            /\ LastRecsIn(store, RaceSession) =
                 IF Truthy(loc[w].books) THEN loc[w].books
                 ELSE read.last_recommendations
            /\ DiscussedIn(store, RaceSession) \subseteq
                 read.discussed_books \cup NonNullIds(IF Truthy(loc[w].books)
                                                      THEN loc[w].books[1]
                                                      ELSE <<>>)

\* the earlier writer added books and the later writer did not: the stored
\* session has neither the earlier message nor its books
C7_Witness ==
    /\ BothReadFirst
    /\ mgr = "context"
    /\ LET w == LaterWriter
           e == CHOOSE p \in Procs : p # w
       IN  /\ loc[e].books = Some(<<Book(Some(0)), Book(None)>>)
           /\ ~Truthy(loc[w].books)
           /\ Len(loc[w].session[1].conversation_history) = 1
           /\ Len(HistoryIn(store, RaceSession)) = 2
           /\ 0 \notin DiscussedIn(store, RaceSession)

(* C8: with asking_about_previous true, _determine_search_strategy returns
   use_previous_only whatever the message, the intent, topic_shift,
   is_continuation and last_recommendations are. *)
C8_AskingAboutPrevious ==
    (fout # None /\ fin[1].context_analysis.asking_about_previous)
        => fout = Some("use_previous_only")

\* asking_about_previous together with a topic shift, an author intent and
\* recommendations to continue from
C8_Witness ==
    /\ fout = Some("use_previous_only")
    /\ fin[1].context_analysis.asking_about_previous
    /\ fin[1].context_analysis.topic_shift
    /\ fin[1].context_analysis.is_continuation
    /\ fin[1].intent = "author"
    /\ Truthy(fin[1].last_recommendations)

\* the rules of the cascade as conditions on the normalised message
IntentRule(n, text) ==
    CASE n = 1 -> AnyIn(career_keywords, text)
      [] n = 2 -> AnyIn(genre_keywords, text) /\ AnyIn(book_request_words, text)
      [] n = 3 -> AnyIn(author_keywords, text) \/ AnyIn(known_authors, text)
      [] n = 4 -> AnyIn(book_request_words, text)
      [] n = 5 -> AnyIn(closing_keywords, text) /\ ~AnyIn(book_request_words, text)
      [] n = 6 -> TRUE

IntentRuleLabel ==
    <<"career_growth", "general", "author", "general", "closing", "social">>

(* C9: _analyze_intent returns the label of the first rule, in the order
   career, genre and request, author, request, closing without request,
   default, that the lower-cased and stripped message matches; the label is
   one of career_growth, general, author, closing, social. *)
C9_FirstMatchingRule ==
    fout # None =>
        LET text == Strip(Lower(fin[1].message))
            first == CHOOSE n \in 1..6 :
                        IntentRule(n, text) /\ \A k \in 1..(n - 1) : ~IntentRule(k, text)
        IN  /\ fout = Some(IntentRuleLabel[first])
            /\ fout[1] \in {"career_growth", "general", "author", "closing", "social"}

\* a message matching the genre-and-request rule and the author rule is
\* labelled by the earlier of the two
C9_Witness ==
    /\ fout = Some("general")
    /\ LET text == Strip(Lower(fin[1].message))
       IN  IntentRule(2, text) /\ IntentRule(3, text) /\ IntentRule(4, text)

\* the live session records of the store
LiveKeys(st) == {k \in DOMAIN st : RedisGet(st, k) # None}

(* C11: a clear-all request whose admin_token is missing or differs from
   the expected token is answered 403, does not execute clear_all_sessions
   and leaves every session record in place; clear_all_sessions is executed
   only for a request that carries the expected token. *)
C11_ClearAllNeedsToken ==
    [][call'.op = "clear_all_memory" =>
          /\ call'.executed => call'.admin_token = Some(ExpectedToken(fin[1]))
          /\ call'.admin_token # Some(ExpectedToken(fin[1])) =>
                /\ call'.status = 403
                /\ store' = store]_vars

\* a request with the default token, where another token is configured, is
\* rejected while both sessions are stored
C11_Witness ==
    /\ call.op = "clear_all_memory"
    /\ call.admin_token = Some("admin123")
    /\ fin[1].ADMIN_TOKEN = Some("s3cret")
    /\ call.status = 403
    /\ LiveKeys(store) = ApiKeys

\* a request with the expected token deleted both sessions
C11_ClearedWitness ==
    /\ call.op = "clear_all_memory"
    /\ call.status = 200
    /\ call.deleted = 2
    /\ LiveKeys(store) = {}

\* the call record of a lookup that returned
Looked(op) == call.op = op /\ call.outcome = "ok"

\* the last-shown books that have the requested id, or whose title contains
\* or is contained in the requested title
ShownMatches ==
    IF call.recs = None THEN {}
    ELSE {i \in 1..Len(call.recs[1]) :
            LET book == call.recs[1][i]
            IN  \/ call.book_id # None /\ IdOf(book) = call.book_id
                \/ call.book_title # None /\ TitleMatches(call.book_title[1], book)}

(* C13: get_book_from_context returns the first last-shown book that has
   the requested id, or whose title contains or is contained in the
   requested title, without consulting the catalog; the catalog is consulted
   only when no last-shown book matches. *)
C13_ShownBeforeCatalog ==
    Looked("get_book_from_context") =>
        /\ ShownMatches # {} =>
              /\ call.ret = Some(call.recs[1][CHOOSE i \in ShownMatches :
                                                \A j \in ShownMatches : i <= j])
              /\ ~call.searched
        /\ call.searched => ShownMatches = {}

\* _calculate_title_similarity of each looked-up title and catalog row
ScoreOn ==
    [k \in LookupTitles \X (1..Len(Catalog)) |->
        _calculate_title_similarity(Lower(k[1]), Lower(Catalog[k[2]].title),
                                    Split(Lower(k[1])))] @@ <<>>

\* the catalog row the call accepted scored highest and above 0.3
AcceptedBest ==
    \E i \in 1..Len(Catalog) :
        /\ call.ret[1].title = Catalog[i].title
        /\ Gt(ScoreOn[<<call.book_title[1], i>>], <<3, 10>>)
        /\ \A j \in 1..Len(Catalog) :
              ~Gt(ScoreOn[<<call.book_title[1], j>>], ScoreOn[<<call.book_title[1], i>>])

NoneAboveThreshold ==
    \A i \in 1..Len(Catalog) : ~Gt(ScoreOn[<<call.book_title[1], i>>], <<3, 10>>)

\* a last recommendation matches the query as find_book_by_title_fuzzy
\* tests it
ShownFuzzyMatch ==
    /\ call.recs # None
    /\ \E i \in 1..Len(call.recs[1]) :
          FuzzyMatches(call.book_title[1], call.recs[1][i])

(* C14 as claimed: find_book_by_title_fuzzy accepts a catalog book only if
   it scores highest of the catalog and above 0.3; a catalog title scores
   1.0 exactly when it is identical to the query; when no catalog title
   scores above 0.3 the result is None. *)
C14_BestAboveThreshold ==
    Looked("find_book_by_title_fuzzy") =>
        /\ (call.ret # None /\ call.searched) => AcceptedBest
        /\ \A i \in 1..Len(Catalog) :
              ScoreOn[<<call.book_title[1], i>>] = <<10, 10>>
                  <=> Catalog[i].title = call.book_title[1]
        /\ NoneAboveThreshold => call.ret = None

(* C14 amended: find_book_by_title_fuzzy returns a last recommendation of
   the session that matches the query (equal, containing, contained, or
   similarity above 0.7) without scoring the catalog; otherwise it accepts a
   catalog book only if it scores highest of the catalog and above 0.3; a
   catalog title scores 1.0 exactly when it equals the query up to letter
   case; when no last recommendation matches and no catalog title scores
   above 0.3 the result is None. *)
C14_BestAboveThresholdUnlessShown ==
    Looked("find_book_by_title_fuzzy") =>
        /\ ShownFuzzyMatch => (call.ret # None /\ ~call.searched)
        /\ ~ShownFuzzyMatch => call.searched
        /\ (call.ret # None /\ call.searched) => AcceptedBest
        /\ \A i \in 1..Len(Catalog) :
              ScoreOn[<<call.book_title[1], i>>] = <<10, 10>>
                  <=> Lower(Catalog[i].title) = Lower(call.book_title[1])
        /\ (~ShownFuzzyMatch /\ NoneAboveThreshold) => call.ret = None

\* "DUNE" is resolved to "Dune" (1.0) although "Dune Messiah" (0.9) comes
\* first in the catalog
C14_Witness ==
    /\ Looked("find_book_by_title_fuzzy")
    /\ call.book_title = Some("DUNE")
    /\ call.searched
    /\ call.ret # None
    /\ call.ret[1].title = "Dune"
    /\ Gt(ScoreOn[<<"DUNE", 2>>], <<3, 10>>)

\* "Dxyz" scores 0.175 at best and is not found
C14_NotFoundWitness ==
    /\ Looked("find_book_by_title_fuzzy")
    /\ call.book_title = Some("Dxyz")
    /\ call.searched
    /\ call.ret = None
    /\ \E i \in 1..Len(Catalog) : Gt(ScoreOn[<<"Dxyz", i>>], <<0, 10>>)

-----------------------------------------------------------------------------
(* C15 *)

\* the input matches a general-request pattern of its language
IsGeneralInput == _is_always_general_request(fin[1].message, fin[1].language)

\* C15: detect_book_reference returns (None, None) for every message that
\* matches a general-request pattern of the request language, whatever id or
\* quoted title the message also carries.
C15_GeneralRequestNoReference ==
    (fout # None /\ fin[1].fn = "detect_book_reference" /\ IsGeneralInput)
        => fout[1] = Reference(None, None)

\* a general request that carries a four-digit id was answered (None, None)
C15_Witness ==
    /\ fin[1].fn = "detect_book_reference"
    /\ fout = Some(Reference(None, None))
    /\ fin[1].message = "me recomenda livros ID 1001"
    /\ IsGeneralInput
    /\ FoundIds(fin[1].message) = <<"1001">>

\* a general request that carries a quoted title was answered (None, None)
C15_QuotedWitness ==
    /\ fin[1].fn = "detect_book_reference"
    /\ fout = Some(Reference(None, None))
    /\ fin[1].message = "recommend me books \"Dune\""
    /\ fin[1].language = "en"
    /\ IsGeneralInput
    /\ Quoted(fin[1].message, "\"") = Some("Dune")
    /\ IsTitle("Dune", "en")

-----------------------------------------------------------------------------
(* C12 *)

ChatOutcomes == {"book_conversation", "book_not_found", "no_book_reference"}

\* the message of the last chat_about_book call names a book that neither the
\* last recommendations nor the dataset have
Unresolvable ==
    /\ call.title # None \/ call.book_id # None
    /\ ResolvedOn[<<fin[1], call.recs, <<call.title, call.book_id>>>>].ret = None

\* C12: every chat_about_book call ends in exactly one of book_conversation,
\* book_not_found and no_book_reference and returns a response; a message
\* whose reference cannot be resolved ends in book_not_found, and no call
\* raises.
C12_ThreeOutcomes ==
    call.op = "chat_about_book" =>
        /\ call.outcome = "ok"
        /\ call.context \in ChatOutcomes
        /\ call.response # None
        /\ Unresolvable => call.context = "book_not_found"

\* the same, of the calls during which Redis answers and whose message
\* carries no id 0
C12_HealthyStoreNonZeroId ==
    (call.op = "chat_about_book" /\ call.failAt = NoFailure /\ call.book_id # Some(0)) =>
        /\ call.outcome = "ok"
        /\ call.context \in ChatOutcomes
        /\ call.response # None
        /\ Unresolvable => call.context = "book_not_found"

\* a chat_about_book call raised while storing the answer about a book it
\* had resolved
C12_RaisedWitness ==
    /\ call.op = "chat_about_book"
    /\ call.outcome = "raised"
    /\ call.failAt = 4
    /\ ~Unresolvable

-----------------------------------------------------------------------------
(* C19 *)

\* the decision table, rule by rule
DecisionTable(message, intent, context_analysis, last_recommendations) ==
    IF context_analysis.asking_about_previous THEN "use_previous_only"
    ELSE IF context_analysis.topic_shift THEN "new_search"
    ELSE IF intent \in {"author", "genre", "popularity"} THEN "new_search"
    ELSE IF Truthy(last_recommendations) /\ context_analysis.is_continuation
         THEN IF AnyIn(specific_aspects, Lower(message))
              THEN "context_boosted"
              ELSE "similar_to_previous"
    ELSE "new_search"

StrategyAnswered == fout # None /\ fin[1].fn = "_determine_search_strategy"

C19_TableOnAnalyzedIntents ==
    (StrategyAnswered
        /\ fin[1].intent \in {"career_growth", "general", "author", "closing", "social"})
    => /\ fout[1] = DecisionTable(fin[1].message, fin[1].intent,
                                  fin[1].context_analysis,
                                  fin[1].last_recommendations)
       /\ fout[1] # "fallback"

-----------------------------------------------------------------------------
(* C18 *)

\* a record is whole: the last message of history that carries books, when
\* there is one, carries last_recommendations and its book ids are in
\* discussed_books; and last_recommendations, when there are any, are those
\* of a message of history unless the history was cut, and their ids are in
\* discussed_books
Whole(history, last_recommendations, discussed_books) ==
    LET withBooks == {i \in 1..Len(history) : "books" \in DOMAIN history[i]}
        last == CHOOSE i \in withBooks : \A j \in withBooks : j <= i
    IN  /\ withBooks # {} =>
              /\ last_recommendations = Some(history[last].books)
              /\ NonNullIds(history[last].books) \subseteq discussed_books
        /\ Truthy(last_recommendations) =>
              /\ NonNullIds(last_recommendations[1]) \subseteq discussed_books
              /\ Len(history) < max_context_messages =>
                    \E i \in withBooks : history[i].books = last_recommendations[1]

\* C18: every record add_message leaves in the store, at every point between
\* the Redis commands of concurrent requests, carries the appended message,
\* the truncated history, last_recommendations and discussed_books together:
\* neither the store nor a session a concurrent request has read holds a
\* message with books without its last_recommendations and discussed ids, or
\* the reverse.
C18_OneWrite ==
    mgr = "context" =>
        /\ store[_session_key(RaceSession)] # None =>
              Whole(HistoryIn(store, RaceSession), LastRecsIn(store, RaceSession),
                    DiscussedIn(store, RaceSession))
        /\ \A p \in Procs :
              pc[p] = "loaded" =>
                  Whole(loc[p].session[1].conversation_history,
                        loc[p].session[1].last_recommendations,
                        loc[p].session[1].discussed_books)

\* a request has read the session right after another request's add_message
\* with books wrote it: it sees the message, the recommendations and the ids
C18_Witness ==
    /\ mgr = "context"
    /\ \E p, q \in Procs :
          /\ p # q
          /\ pc[p] = "done"
          /\ loc[p].books = Some(<<Book(Some(0)), Book(None)>>)
          /\ pc[q] = "loaded"
          /\ loc[q].readAfter = Len(writers)
          /\ writers[Len(writers)] = p
          /\ LET s == loc[q].session[1]
             IN  /\ s.conversation_history[Len(s.conversation_history)] = loc[p].message[1]
                 /\ s.last_recommendations = loc[p].books
                 /\ 0 \in s.discussed_books

-----------------------------------------------------------------------------
(* C16, C17, C20: the responses of process_message *)

\* the call returned a response
ProcessReturned == call.op = "process_message" /\ call.outcome = "ok"

\* C16: every response of process_message has at most 8 books in its books
\* list, on the closing, author, book conversation and general paths, under
\* every retrieval strategy and after every fallback.
C16_AtMostEightSurfaced == ProcessReturned => Len(call.books) <= 8

\* a general request whose search found more than 8 books answered with 8
C16_Witness ==
    /\ ProcessReturned
    /\ call.path = "general"
    /\ Len(call.produced) > 8
    /\ Len(call.books) = 8

\* a request answered by the fallback search after the search of its
\* strategy raised, and one answered with the previous recommendations
\* because its search found nothing
C16_FallbackWitness ==
    /\ ProcessReturned
    /\ call.path = "general"
    /\ "search_by_semantic" \in call.retrieval
    /\ "_intelligent_search" \in call.retrieval
    /\ Len(call.books) = FallbackLimit

\* C17: under use_previous_only the response carries the books of the
\* session's last_recommendations in their stored order, cut to the first 8,
\* and the request calls no retrieval path of the search engine. A session
\* without recommendations gives no books.
C17_UsePreviousOnly ==
    (ProcessReturned /\ call.strategy = "use_previous_only") =>
        /\ LET stored == IF call.recs = None THEN <<>> ELSE call.recs[1]
               n == IF Len(stored) > 8 THEN 8 ELSE Len(stored)
           IN  /\ Len(call.books) = n
               /\ \A i \in 1..n :
                     /\ IdOf(call.books[i]) = IdOf(stored[i])
                     /\ TitleOf(call.books[i]) = TitleOf(stored[i])
        /\ call.retrieval = {}

\* a session with more than 8 recommendations was asked about them and
\* answered with the first 8
C17_Witness ==
    /\ ProcessReturned
    /\ call.strategy = "use_previous_only"
    /\ Len(call.recs[1]) > 8
    /\ Len(call.books) = 8
    /\ IdOf(call.books[8]) = IdOf(call.recs[1][8])

\* C20: a call of process_message that returns normally has appended the
\* user message and then the assistant response to the history of the
\* session, and has set last_recommendations to the books it produced when
\* there are any, on the closing, author, book conversation and general paths.
C20_StoredBeforeReturn ==
    ProcessReturned =>
        LET h == HistoryIn(store, call.sid)
            n == Len(h)
        IN  /\ call.saved = <<"user", "assistant">>
            /\ n >= 2
            /\ h[n - 1].role = "user" /\ h[n - 1].content = call.message
            /\ h[n].role = "assistant"
            /\ call.produced # <<>> =>
                  LastRecsIn(store, call.sid) = Some(call.produced)

\* a book conversation request returned without a message appended
C20_ReturnedUnstored ==
    /\ ProcessReturned
    /\ call.path = "book_conversation"
    /\ call.context = "book_not_found"
    /\ call.saved = <<>>

\* what the code does keep: on the closing and general paths both messages
\* are appended in order, and last_recommendations is the first 3 of the
\* books produced when there are any
C20_ClosingAndGeneralStore ==
    (ProcessReturned /\ call.path \in {"closing", "general"}) =>
        LET h == HistoryIn(store, call.sid)
            n == Len(h)
        IN  /\ call.saved = <<"user", "assistant">>
            /\ n >= 2
            /\ h[n - 1].role = "user" /\ h[n - 1].content = call.message
            /\ h[n].role = "assistant"
            /\ call.produced # <<>> =>
                  LastRecsIn(store, call.sid) = Some(Take(call.produced, SaveLimit))

-----------------------------------------------------------------------------
(* C21, C23: the recoveries of the general path of process_message          *)

\* the call is a general request whose analysis or search raised and whose
\* fallback search answered
Recovering ==
    /\ call.op = "process_message"
    /\ call.path = "general"
    /\ call.failed \in {"analysis", "search"}

\* C21: when the context analysis or the search of the strategy raises,
\* process_message runs the plain semantic search, returns normally with
\* what it found, at most 5 books, and the exception stays inside.
C21_RecoversWithSemanticSearch ==
    Recovering =>
        /\ call.outcome = "ok"
        /\ "search_by_semantic" \in call.retrieval
        /\ Len(call.books) <= FallbackLimit

\* _analyze_context raised in a session that holds recommendations, the
\* fallback search answered, both messages were stored, and the request
\* raised
C21_RaisedAfterRecovery ==
    /\ Recovering
    /\ call.failed = "analysis"
    /\ call.outcome = "raised"
    /\ call.recs # None
    /\ call.saved = <<"user", "assistant">>

\* what the code does keep: the recovery returns normally when the search
\* of the strategy raised, and when the analysis raised in a session
\* without recommendations
C21_RecoversFromSearch ==
    (Recovering /\ (call.failed = "search" \/ ~Truthy(call.recs))) =>
        /\ call.outcome = "ok"
        /\ "search_by_semantic" \in call.retrieval
        /\ Len(call.books) <= FallbackLimit

\* the call is a general request whose strategy ran without raising and
\* gave no books
NothingFound ==
    /\ call.op = "process_message"
    /\ call.path = "general"
    /\ call.failed = ""
    /\ call.found = 0

C23_ThreeOfNine ==
    /\ NothingFound
    /\ call.strategy = "new_search"
    /\ Truthy(call.recs)
    /\ Len(call.recs[1]) = MaxResults
    /\ Len(call.books) = SaveLimit

\* what the code does keep: the request returns normally, with the first 3
\* of the last_recommendations when the session has some and the strategy
\* is a search, and with no books when the session has none
C23_FirstThreeOrNothing ==
    (NothingFound /\ call.strategy # "use_previous_only") =>
        /\ call.outcome = "ok"
        /\ IF Truthy(call.recs)
           THEN LET n == IF Len(call.recs[1]) > SaveLimit THEN SaveLimit
                         ELSE Len(call.recs[1])
                IN  /\ Len(call.books) = n
                    /\ \A i \in 1..n :
                          /\ IdOf(call.books[i]) = IdOf(call.recs[1][i])
                          /\ TitleOf(call.books[i]) = TitleOf(call.recs[1][i])
           ELSE call.books = <<>> /\ call.produced = <<>>

-----------------------------------------------------------------------------
(* C22, C24: the retrieval paths of a new search and the deduplication      *)

\* _intelligent_search was called and has ended
SearchEnded == fin[1].fn = "_intelligent_search" /\ fout # None

\* one of the two retrieval paths raised: the semantic search, or the scan
\* of one of the keywords
OnePathThrows ==
    /\ SearchEnded
    /\ ~fin[1].refineFails
    /\ fin[1].semantic.raises # (\E i \in 1..Len(fin[1].textual) : fin[1].textual[i].raises)

\* the books of the path that did not raise
OtherPath ==
    IF fin[1].semantic.raises THEN Extended(fin[1].textual)
    ELSE fin[1].semantic.books

\* C22: when one retrieval path of _intelligent_search raises, the search
\* still returns, and what it returns is the merge of the other path alone:
\* its books deduplicated, sorted and cut to 10.
C22_OtherPathReturned ==
    OnePathThrows =>
        /\ ~fout[1].raised
        /\ ~fout[1].fallback
        /\ fout[1].books = Ranked(fin[1], _remove_duplicate_books(OtherPath), 0).books

\* the semantic search raised, the scan of the keywords had books to give,
\* and the search raised: the except branch searches semantically again
C22_TextualLost ==
    /\ OnePathThrows
    /\ fin[1].semantic.raises
    /\ Extended(fin[1].textual) # <<>>
    /\ fout[1].raised
    /\ fout[1].calls = 2

\* the scan of a keyword raised and the books of the semantic search were
\* replaced by those of the second semantic search
C22_SemanticReplaced ==
    /\ OnePathThrows
    /\ ~fin[1].semantic.raises
    /\ fin[1].semantic.books # <<>>
    /\ ~fout[1].raised
    /\ fout[1].books = fin[1].fallback.books
    /\ fout[1].books # fin[1].semantic.books

\* what the code does when a path raises: it answers what the second
\* semantic search answers, and raises when that search raises
C22_SecondSearchAnswers ==
    OnePathThrows =>
        /\ fout[1].fallback
        /\ fout[1].raised = fin[1].fallback.raises
        /\ fout[1].books = fin[1].fallback.books


\* _remove_duplicate_books was called and has ended
Deduplicated == fin[1].fn = "_remove_duplicate_books" /\ fout # None

\* what identifies a book: its book_id when it has one, else its title
IdentityOf(book) ==
    IF IdOf(book) # None THEN [id |-> IdOf(book)[1], title |-> "", by |-> "id"]
    ELSE [id |-> 0, title |-> TitleOf(book), by |-> "title"]

\* the positions of the first occurrence of every identity in books
FirstOccurrences(books) ==
    {i \in 1..Len(books) :
        \A j \in 1..(i - 1) : IdentityOf(books[j]) # IdentityOf(books[i])}

\* the elements of books at the positions keep, in the order of books
Selected(books, keep) ==
    [p \in 1..Cardinality(keep) |->
        books[CHOOSE i \in keep : Cardinality({j \in keep : j <= i}) = p]]

\* C24: _remove_duplicate_books returns the books of its input that are the
\* first of their book_id (of their title when they have no book_id), in
\* input order, whatever the scores of the later ones, and applying it to
\* its result changes nothing.
C24_FirstOccurrences ==
    Deduplicated =>
        /\ ~fout[1].raised
        /\ fout[1].books = Selected(fin[1].books, FirstOccurrences(fin[1].books))
        /\ _remove_duplicate_books(fout[1].books) = fout[1]

\* a list holding a BookResult with book_id 0 made the function raise
C24_RaisedOnZeroId ==
    /\ Deduplicated
    /\ fin[1].books = <<Zeroth>>
    /\ fout[1].raised

\* two dicts with book_id 0 and different titles were both kept
C24_ZeroIdKeptTwice ==
    /\ Deduplicated
    /\ fin[1].books = <<BookRef(0, "Dune"), BookRef(0, "Duna")>>
    /\ fout[1] = [raised |-> FALSE, books |-> fin[1].books]

\* what the code does keep: on books whose book_id is None or not 0 the
\* result is the first occurrences in input order and the function is
\* idempotent; a later occurrence with a higher score is dropped
C24_FirstOccurrencesNonZero ==
    (Deduplicated /\ \A i \in 1..Len(fin[1].books) :
                         /\ IdOf(fin[1].books[i]) # Some(0)
                         /\ ~KeyRaises(fin[1].books[i])) =>
        /\ ~fout[1].raised
        /\ fout[1].books = Selected(fin[1].books, FirstOccurrences(fin[1].books))
        /\ _remove_duplicate_books(fout[1].books) = fout[1]

-----------------------------------------------------------------------------
(* C25: the order of the extraction steps of detect_book_reference *)

\* a call of detect_book_reference on a message that is no general request
\* has ended
ReferenceDetected ==
    /\ fin # None
    /\ fin[1].fn = "detect_book_reference"
    /\ fout # None
    /\ ~_is_always_general_request(fin[1].message, fin[1].language)

\* the reference of the fixed priority: an id, a title in double quotes, in
\* single quotes, of a pattern, and last the title of the heuristic
PriorityReference(found, heuristic) ==
    IF found # Reference(None, None) THEN found ELSE Reference(heuristic, None)

\* C25: for a message that is no general request, detect_book_reference
\* returns an id before any title, otherwise the first accepted candidate
\* among the double-quoted text, the single-quoted text, the pattern titles
\* and the span of the heuristic between an indicator and an end word
C25_FixedPriority ==
    ReferenceDetected =>
        fout[1] = PriorityReference(
                      ReferenceUnchecked(fin[1].message, fin[1].language),
                      _extract_title_heuristic(fin[1].message, fin[1].language))

\* a call returned no reference for a message in which the heuristic finds
\* a title
C25_HeuristicNotTried ==
    /\ ReferenceDetected
    /\ fout[1] = Reference(None, None)
    /\ _extract_title_heuristic(fin[1].message, fin[1].language) # None

\* C25 without its last step: an id before any title, otherwise the first
\* accepted candidate among the double-quoted text, the single-quoted text
\* and the pattern titles, and nothing else
C25_PriorityWithoutHeuristic ==
    ReferenceDetected =>
        /\ FoundIds(fin[1].message) # <<>> => fout[1].title = None
        /\ fout[1].book_id # None => FoundIds(fin[1].message) # <<>>
        /\ (FoundIds(fin[1].message) = <<>>
              /\ Titles(PatternTitles(fin[1].message, fin[1].language),
                        fin[1].language) = <<>>
              /\ QuotedTitle(Quoted(fin[1].message, "\""), fin[1].language) = None
              /\ QuotedTitle(Quoted(fin[1].message, "'"), fin[1].language) = None)
             => fout[1] = Reference(None, None)

-----------------------------------------------------------------------------
(* C26: the candidates detect_book_reference rejects *)

\* the text matches the stop-phrase lexicon of the language
InLexicon(text, language) ==
    \E i \in 1..Len(stop_phrases(language)) :
        Contains(Lower(text), stop_phrases(language)[i])

\* the text is at most 3 tokens, all of them common short words
CommonTokens(text, language) ==
    /\ Len(Split(Lower(text))) <= 3
    /\ \A i \in 1..Len(Split(Lower(text))) :
           Split(Lower(text))[i] \in common_words_list(language)

\* a candidate the claim has rejected
RejectedCandidate(text, language) ==
    \/ Len(text) < 4
    \/ InLexicon(text, language)
    \/ CommonTokens(text, language)

\* the message holds no id, one rejected text in quotes, and no other text
\* that a pattern finds
OnlyRejectedQuote(message, language, double, single) ==
    /\ FoundIds(message) = <<>>
    /\ (double = None) # (single = None)
    /\ \A q \in {double, single} \ {None} :
           /\ RejectedCandidate(q[1], language)
           /\ \A i \in 1..Len(PatternTitles(message, language)) :
                  PatternTitles(message, language)[i] = q[1]

\* a call of detect_book_reference has ended
DetectEnded ==
    /\ fin # None
    /\ fin[1].fn = "detect_book_reference"
    /\ fout # None

\* C26: detect_book_reference never returns a title shorter than 4
\* characters, matching the stop-phrase lexicon of the language, or of at
\* most 3 tokens that are all common short words; a message whose only
\* candidate is such a text in quotes resolves to no reference
C26_NoRejectedTitle ==
    DetectEnded =>
        /\ fout[1].title # None =>
               ~RejectedCandidate(fout[1].title[1], fin[1].language)
        /\ OnlyRejectedQuote(fin[1].message, fin[1].language,
                             Quoted(fin[1].message, "\""),
                             Quoted(fin[1].message, "'"))
             => fout[1] = Reference(None, None)

\* a message that is no general request and whose only candidate is a stop
\* phrase in double quotes resolved to no reference
C26_QuotedStopPhrase ==
    /\ ReferenceDetected
    /\ Quoted(fin[1].message, "\"") # None
    /\ InLexicon(Quoted(fin[1].message, "\"")[1], fin[1].language)
    /\ OnlyRejectedQuote(fin[1].message, fin[1].language,
                         Quoted(fin[1].message, "\""), Quoted(fin[1].message, "'"))
    /\ fout[1] = Reference(None, None)

-----------------------------------------------------------------------------
(* C27: asking_about_previous of _analyze_context *)

\* a call of _analyze_context has ended
ContextAnalyzed ==
    /\ fin # None
    /\ fin[1].fn = "_analyze_context"
    /\ fout # None

\* the message holds a phrase of the referring-back lexicon of the language
RefersBack == AnyIn(asking_keywords(fin[1].language), Lower(fin[1].message))

\* C27: whenever the message holds a phrase of the referring-back lexicon of
\* the request language, _analyze_context sets asking_about_previous, for
\* every history, the empty one included, and every last_recommendations
C27_AskingOnEveryHistory ==
    (ContextAnalyzed /\ RefersBack) => fout[1].asking_about_previous

\* a message with a phrase of the lexicon, analysed with an empty history,
\* is not asking about the previous books
C27_EmptyHistoryNotAsking ==
    /\ ContextAnalyzed
    /\ RefersBack
    /\ fin[1].conversation_history = <<>>
    /\ ~fout[1].asking_about_previous

\* C27 on the histories that hold a message: asking_about_previous is set
\* exactly when the message holds a phrase of the lexicon, whatever the
\* last_recommendations
C27_AskingWithHistory ==
    (ContextAnalyzed /\ fin[1].conversation_history # <<>>) =>
        (fout[1].asking_about_previous <=> RefersBack)

-----------------------------------------------------------------------------
(* C28: the recommended books of a stored session are discussed books *)

\* C28: in every session record stored by get_or_create_session, add_message
\* and add_book_details, every non-null book_id of last_recommendations is
\* in discussed_books, also when the calls on the session interleave and one
\* writer overwrites another
C28_RecommendedDiscussed ==
    \A s \in SessionIds :
        (store[_session_key(s)] # None /\ LastRecsIn(store, s) # None) =>
            NonNullIds(LastRecsIn(store, s)[1]) \subseteq DiscussedIn(store, s)

\* two add_message calls with books interleaved while the record was live:
\* the second writer overwrote the first, whose book is no longer among the
\* discussed books
C28_Overwritten ==
    /\ now = 0
    /\ writers = <<1, 2>>
    /\ pc[1] = "idle" /\ pc[2] = "idle"
    /\ loc[1].op = "add_message" /\ loc[1].books = Some(<<Book(Some(1))>>)
    /\ loc[2].op = "add_message"
    /\ loc[2].books = Some(<<Book(Some(0)), Book(None)>>)
    /\ LastRecsIn(store, RaceSession) = loc[2].books
    /\ DiscussedIn(store, RaceSession) = {0}

-----------------------------------------------------------------------------
(* C29: the calls on one session id leave the other sessions alone *)

\* the stored records of the sessions other than that of the call stay as
\* they are in this step
OthersKept ==
    \A s \in FrameSessions :
        s # call'.sid => store'[_session_key(s)] = store[_session_key(s)]

\* C29: get_or_create_session, add_message, clear_session and
\* clear_session_data on one session_id never modify or delete the stored
\* record of another session_id, whatever the two ids are
C29_OtherSessionsKept == [][OthersKept]_vars

\* clear_session_data("s1") deleted two keys: the record of s1 and that of
\* another session
C29_TwoRecordsDeleted ==
    /\ call.op = "clear_session_data"
    /\ call.sid = "s1"
    /\ call.ret = Some(2)
    /\ store[_session_key("s10")] = None

\* clear_session_data("on") deleted the records of all three sessions
C29_EveryRecordDeleted ==
    /\ call.op = "clear_session_data"
    /\ call.sid = "on"
    /\ call.ret = Some(3)

\* C29 without clear_session_data: get_or_create_session, add_message and
\* clear_session change no record but that of their own session_id
C29_OtherSessionsKeptByKey ==
    [][call'.op # "clear_session_data" => OthersKept]_vars

-----------------------------------------------------------------------------
(* C30: the two detectors of the book conversation path *)

\* process_message handed the message to chat_about_book and returned
HandedToChat ==
    /\ ProcessReturned
    /\ call.path = "book_conversation"

\* C30: whenever process_message hands a message to chat_about_book, because
\* detect_multiple_books and get_book_from_context resolved a book for it,
\* chat_about_book resolves a book for the message too: it answers neither
\* no_book_reference nor book_not_found
C30_DetectorsAgree ==
    HandedToChat => call.context \notin {"no_book_reference", "book_not_found"}

\* the message names two titles in quotes, of which the session shows the
\* second: process_message found it, chat_about_book looked for the first
\* alone and answered book_not_found
C30_SecondTitleShown ==
    /\ HandedToChat
    /\ call.message = "fale sobre \"Dxyz\" e \"DUNE\""
    /\ call.context = "book_not_found"
    /\ call.books = <<>>

====
